---- MODULE Spec2Model ----
(***************************************************************************)
(* envsecrets: the push protocol of internal/sync over the per-project     *)
(* cache (internal/cache), the cache's history (internal/git) and the      *)
(* object store (internal/storage), for clients on different machines      *)
(* that share one remote prefix.                                           *)
(***************************************************************************)
EXTENDS Integers, Sequences, FiniteSets, TLC

\* ---------------------------------------------------------------- bounds
MaxCommits == 3   \* commits created over a behaviour (fresh hashes)
MaxFaults  == 1   \* injected I/O failures over a behaviour
MaxEdits   == 1   \* edits of local project files over a behaviour
MaxRand    == 1   \* distinct randomisations of one encryption
MaxOps     == 3   \* pushes and pulls over a behaviour of clients taking turns
MaxRefOps  == 4   \* the same, over a behaviour with pulls at a pinned ref
MaxPathLen == 6   \* characters of a path given to a call
MaxRepoLen == 5   \* characters of a repository string (owner/name)

\* ------------------------------------------------------------ vocabulary
Clients  == {"A", "B"}
EnvFiles == <<".env", ".env.old">>           \* the tracked list, in order
FileSet  == {EnvFiles[i] : i \in 1..Len(EnvFiles)}
Contents == {1, 2}                           \* plaintexts
Absent   == 0                                \* no local file
NoFile   == <<>>                             \* no file / no object
NoHash   == 0                                \* "" : no commit, no HEAD read
HeadKey  == "HEAD"
Hashes   == 1..(MaxCommits + 1)

\* crypto.Encrypter: age encryption is randomised; r is the randomness.
Encrypt(content, r) == <<content, r>>

\* A decryption that yields another plaintext than the one encrypted
Decrypt_Garbled(blob) == 3 - blob[1]

Decrypt(blob) == blob[1]

VARIABLES
  objects,            \* storage: key -> bytes (NoFile when there is no object)
  local,              \* per client: project files, file -> plaintext | Absent
  initialized,        \* per client: the cache repository exists (.git)
  files,              \* per client: cache working tree, file -> blob | NoFile
  head,               \* per client: HEAD commit of the cache
  commits,            \* per client: commit hashes, newest first
  trees,              \* the tree of each commit (the caches share no commit)
  pc,                 \* per client: position in Push
  opts,               \* per client: PushOptions of the running push
  initialRemoteHead,  \* per client: H0 of the running push
  result,             \* per client: PushResult, running and as last returned
  err,                \* per client: error last returned ("ok": nil)
  plan,               \* per client: classification of each tracked file
  upIdx,              \* per client: next file of SyncToStorage
  refetch,            \* per client: outcome of the re-fetch of step 7
  nextHash,           \* next fresh commit hash
  faults,             \* I/O failures injected so far
  edits,              \* local edits so far
  \* history variables (observers only; no action's guard reads them)
  lastKnown,          \* per client: last remote HEAD the client read or wrote
  stale,              \* per client: when this push started the remote HEAD
                      \*   was no longer lastKnown
  pending,            \* per client: files whose cache blob a push that ended
                      \*   before its commit wrote or removed, the local file
                      \*   being untouched since
  unpushed,           \* per client: a commit exists that no syncToStorage finished
  hadUnpushed,        \* per client: the unpushed commit there was when the
                      \*   running/last push started (NoHash: none)
  interfered,         \* per client: another client uploaded during this push
  pull,               \* per client: PullOptions, PullResult and locals of Pull
  seq,                \* the operations allowed when the clients take turns
                      \*   and the history below is kept (0: they run
                      \*   concurrently)
  ops,                \* operations started so far, when the clients take turns
  last,               \* per client: its last operation, when neither its local
                      \*   files nor the remote changed since ("none": else)
  trip,               \* per client: the plaintexts of the files removed locally
                      \*   right after a push that returned success
  headCall,           \* a call of GetRemoteHead on its own: the bytes of the
                      \*   HEAD object and what the call returned
  retry,              \* a call of WithRetry on its own: the loop, the context
                      \*   and what the call returned
  pathCall,           \* a call that takes a path, on its own: the base
                      \*   directory, the path given, and what the call
                      \*   returned and touched
  passCall,           \* a call of PassphraseResolver.Resolve on its own: the
                      \*   configuration, the environment and the result
  cryptCall,          \* a call of Encrypt and Decrypt on its own: the
                      \*   passphrases, the plaintext and the result
  repoCall            \* two repositories in one bucket, on their own: the
                      \*   objects, a cache and the calls made

vars == <<objects, local, initialized, files, head, commits, trees, pc, opts,
          initialRemoteHead, result, err, plan, upIdx, refetch, nextHash,
          faults, edits, lastKnown, stale, pending, unpushed, hadUnpushed,
          interfered, pull, seq, ops, last, trip, headCall, retry,
          pathCall, passCall, cryptCall, repoCall>>

\* ------------------------------------------------------------- helpers
\* domain.PushResult before anything was counted
EmptyResult == [FilesAdded |-> 0, FilesUpdated |-> 0, FilesDeleted |-> 0,
                CommitHash |-> NoHash]

NoPlan == [f \in FileSet |-> "-"]

NoOpts == [Force |-> FALSE, DryRun |-> FALSE]

\* storage.Exists on the HEAD key (Cache.ExistsRemote)
ExistsRemote == objects[HeadKey] # NoFile

\* The content of a HEAD object that isValidGitHash rejects
Corrupt == -1

\* Cache.GetRemoteHead when the download succeeds: NoHash stands for the
\* error return (object missing, or content that is not a hash).  Every HEAD
\* object the program uploads is the hash of a commit.
GetRemoteHead ==
  IF objects[HeadKey] = NoFile \/ objects[HeadKey][1] = Corrupt THEN NoHash
  ELSE objects[HeadKey][1]

\* Cache.ListLocalFiles: the blobs of a working tree, in walk order
RECURSIVE ListFrom(_, _)
ListFrom(tree, i) ==
  IF i > Len(EnvFiles) THEN <<>>
  ELSE (IF tree[EnvFiles[i]] # NoFile THEN <<EnvFiles[i]>> ELSE <<>>)
       \o ListFrom(tree, i + 1)
ListLocalFiles(tree) == ListFrom(tree, 1)

\* An iteration that takes a changed file for a new one and a new file for a
\* changed one
ProcessFile_Swapped(st, lc, f, dry, rnd) ==
  IF lc[f] = Absent
  THEN IF st.tree[f] # NoFile
       THEN [tree |-> IF dry THEN st.tree ELSE [st.tree EXCEPT ![f] = NoFile],
             plan |-> [st.plan EXCEPT ![f] = "Deleted"]]
       ELSE [tree |-> st.tree, plan |-> [st.plan EXCEPT ![f] = "Skipped"]]
  ELSE IF st.tree[f] # NoFile /\ Decrypt(st.tree[f]) = lc[f]
       THEN [tree |-> st.tree, plan |-> [st.plan EXCEPT ![f] = "Unchanged"]]
       ELSE [tree |-> IF dry THEN st.tree
                      ELSE [st.tree EXCEPT ![f] = Encrypt(lc[f], rnd[f])],
             plan |-> [st.plan EXCEPT
                        ![f] = IF st.tree[f] = NoFile THEN "Updated" ELSE "Added"]]

\* An iteration that counts a new or changed file and does not write its blob
ProcessFile_NoWrite(st, lc, f, dry, rnd) ==
  IF lc[f] = Absent
  THEN IF st.tree[f] # NoFile
       THEN [tree |-> IF dry THEN st.tree ELSE [st.tree EXCEPT ![f] = NoFile],
             plan |-> [st.plan EXCEPT ![f] = "Deleted"]]
       ELSE [tree |-> st.tree, plan |-> [st.plan EXCEPT ![f] = "Skipped"]]
  ELSE IF st.tree[f] # NoFile /\ Decrypt(st.tree[f]) = lc[f]
       THEN [tree |-> st.tree, plan |-> [st.plan EXCEPT ![f] = "Unchanged"]]
       ELSE [tree |-> st.tree,
             plan |-> [st.plan EXCEPT
                        ![f] = IF st.tree[f] = NoFile THEN "Added" ELSE "Updated"]]

\* An iteration that removes and writes the blobs on a dry run too
ProcessFile_DryRunWrites(st, lc, f, dry, rnd) ==
  IF lc[f] = Absent
  THEN IF st.tree[f] # NoFile
       THEN [tree |-> [st.tree EXCEPT ![f] = NoFile],
             plan |-> [st.plan EXCEPT ![f] = "Deleted"]]
       ELSE [tree |-> st.tree, plan |-> [st.plan EXCEPT ![f] = "Skipped"]]
  ELSE IF st.tree[f] # NoFile /\ Decrypt(st.tree[f]) = lc[f]
       THEN [tree |-> st.tree, plan |-> [st.plan EXCEPT ![f] = "Unchanged"]]
       ELSE [tree |-> [st.tree EXCEPT ![f] = Encrypt(lc[f], rnd[f])],
             plan |-> [st.plan EXCEPT
                        ![f] = IF st.tree[f] = NoFile THEN "Added" ELSE "Updated"]]

\* An iteration that writes the file's bytes as they are
ProcessFile_Plaintext(st, lc, f, dry, rnd) ==
  IF lc[f] = Absent
  THEN IF st.tree[f] # NoFile
       THEN [tree |-> IF dry THEN st.tree ELSE [st.tree EXCEPT ![f] = NoFile],
             plan |-> [st.plan EXCEPT ![f] = "Deleted"]]
       ELSE [tree |-> st.tree, plan |-> [st.plan EXCEPT ![f] = "Skipped"]]
  ELSE IF st.tree[f] # NoFile /\ Decrypt(st.tree[f]) = lc[f]
       THEN [tree |-> st.tree, plan |-> [st.plan EXCEPT ![f] = "Unchanged"]]
       ELSE [tree |-> IF dry THEN st.tree
                      ELSE [st.tree EXCEPT ![f] = <<lc[f]>>],
             plan |-> [st.plan EXCEPT
                        ![f] = IF st.tree[f] = NoFile THEN "Added" ELSE "Updated"]]

\* One iteration of the loop of Push (push.go:38-94) on file f.
\* st is [tree, plan]; rnd[f] is the randomness of the encryption.
ProcessFile(st, lc, f, dry, rnd) ==
  IF lc[f] = Absent
  THEN IF st.tree[f] # NoFile
       THEN [tree |-> IF dry THEN st.tree ELSE [st.tree EXCEPT ![f] = NoFile],
             plan |-> [st.plan EXCEPT ![f] = "Deleted"]]
       ELSE [tree |-> st.tree, plan |-> [st.plan EXCEPT ![f] = "Skipped"]]
  ELSE IF st.tree[f] # NoFile /\ Decrypt(st.tree[f]) = lc[f]
       THEN [tree |-> st.tree, plan |-> [st.plan EXCEPT ![f] = "Unchanged"]]
       ELSE [tree |-> IF dry THEN st.tree
                      ELSE [st.tree EXCEPT ![f] = Encrypt(lc[f], rnd[f])],
             plan |-> [st.plan EXCEPT
                        ![f] = IF st.tree[f] = NoFile THEN "Added" ELSE "Updated"]]

\* The loop over the first n tracked files.
RECURSIVE ProcessFiles(_, _, _, _, _)
ProcessFiles(tree, lc, n, dry, rnd) ==
  IF n = 0 THEN [tree |-> tree, plan |-> NoPlan]
  ELSE ProcessFile(ProcessFiles(tree, lc, n - 1, dry, rnd), lc,
                   EnvFiles[n], dry, rnd)

\* An iteration can return an error only where it calls something that can
\* fail: RemoveEncrypted, ReadFile, Decrypt, Encrypt, WriteEncrypted.
CanFail(tree, lc, f, dry) ==
  IF lc[f] = Absent THEN tree[f] # NoFile /\ ~dry ELSE TRUE

Count(pl, class) == Cardinality({f \in FileSet : pl[f] = class})

ResultOf(pl) == [FilesAdded   |-> Count(pl, "Added"),
                 FilesUpdated |-> Count(pl, "Updated"),
                 FilesDeleted |-> Count(pl, "Deleted"),
                 CommitHash   |-> NoHash]

Changed(pl) == {f \in FileSet : pl[f] \in {"Added", "Updated", "Deleted"}}

\* domain.PullResult before anything was counted
EmptyPullResult == [FilesUpdated |-> 0, FilesCreated |-> 0, FilesSkipped |-> 0,
                    FilesSkippedConflict |-> 0, Ref |-> NoHash,
                    FilesWithConflicts |-> <<>>]

\* The options (sync.PullOptions; Ref is NoHash for "": the pull is of the
\* cache as synced), the result and the locals of a Pull that is not running
NoPull == [opts |-> [Ref |-> NoHash, Force |-> FALSE, DryRun |-> FALSE,
                     ConflictResolver |-> FALSE],
           result |-> EmptyPullResult,
           filesToWrite |-> <<>>, resolvedSkips |-> {}]

NoTrip == [f \in FileSet |-> Absent]

\* A working tree, or the tree of a commit, without a blob
EmptyTree == [f \in FileSet |-> NoFile]

\* sync.ConflictAction: the three actions, and any other value
Answers == {"Overwrite", "Skip", "Abort", "Invalid"}

\* A sync that downloads only the objects the working tree has no file for
SyncedTree_MissingOnly(tree, n) ==
  [f \in FileSet |->
     IF tree[f] = NoFile /\ \E i \in 1..n : ListLocalFiles(objects)[i] = f
     THEN objects[f]
     ELSE tree[f]]

\* Cache.SyncFromStorage after n downloads into a working tree: the first n
\* listed objects overwrite their files, every other file stays.
SyncedTree(tree, n) ==
  [f \in FileSet |->
     IF \E i \in 1..n : ListLocalFiles(objects)[i] = f THEN objects[f]
     ELSE tree[f]]

\* A first pass that does not compare the local file with the plaintext
RECURSIVE FirstPass_NoCompare(_, _, _)
FirstPass_NoCompare(tree, lc, n) ==
  IF n = 0
  THEN [FilesSkipped |-> 0, FilesWithConflicts |-> <<>>, filesToWrite |-> <<>>]
  ELSE LET st == FirstPass_NoCompare(tree, lc, n - 1)
           f  == EnvFiles[n]
       IN IF tree[f] = NoFile THEN st
          ELSE [st EXCEPT
                  !.FilesWithConflicts = IF lc[f] # Absent THEN Append(@, f)
                                         ELSE @,
                  !.filesToWrite =
                     Append(@, [file |-> f, decrypted |-> Decrypt(tree[f]),
                                isNew |-> lc[f] = Absent])]

\* pull.go:58-92, the first pass over the first n tracked files
RECURSIVE FirstPass(_, _, _)
FirstPass(tree, lc, n) ==
  IF n = 0
  THEN [FilesSkipped |-> 0, FilesWithConflicts |-> <<>>, filesToWrite |-> <<>>]
  ELSE LET st == FirstPass(tree, lc, n - 1)
           f  == EnvFiles[n]
       IN IF tree[f] = NoFile THEN st
          ELSE IF lc[f] # Absent /\ lc[f] = Decrypt(tree[f])
          THEN [st EXCEPT !.FilesSkipped = @ + 1]
          ELSE [st EXCEPT
                  !.FilesWithConflicts = IF lc[f] # Absent THEN Append(@, f)
                                         ELSE @,
                  !.filesToWrite =
                     Append(@, [file |-> f, decrypted |-> Decrypt(tree[f]),
                                isNew |-> lc[f] = Absent])]

\* A loop that takes every answer but Overwrite for Skip
Resolve_NoAbort(conf, ans, i) ==
  [err |-> "none",
   skips |-> {conf[j] : j \in {k \in i..Len(conf) : ans[conf[k]] # "Overwrite"}}]

\* pull.go:103-118, the loop over the conflicting files from the i-th on:
\* the error it returns ("none": it ends) and resolvedSkips
RECURSIVE Resolve(_, _, _)
Resolve(conf, ans, i) ==
  IF i > Len(conf) THEN [err |-> "none", skips |-> {}]
  ELSE IF ans[conf[i]] = "Abort" THEN [err |-> "UserCancelled", skips |-> {}]
  ELSE IF ans[conf[i]] = "Invalid" THEN [err |-> "InvalidAction", skips |-> {}]
  ELSE LET r == Resolve(conf, ans, i + 1)
       IN IF r.err # "none" THEN r
          ELSE [r EXCEPT !.skips = IF ans[conf[i]] = "Skip"
                                   THEN @ \cup {conf[i]} ELSE @]

\* A pull that handles the conflicts on a dry run too
HasConflicts_OnDryRun(p) ==
  Len(p.result.FilesWithConflicts) > 0 /\ ~p.opts.Force

\* pull.go:95: the conflicts are handled
HasConflicts(p) ==
  Len(p.result.FilesWithConflicts) > 0 /\ ~p.opts.Force /\ ~p.opts.DryRun

\* A conflict handling that returns the resolver's cancellation when there is
\* no resolver
HandleConflicts_HeadlessCancels(p, ans) ==
  IF ~HasConflicts(p) THEN [err |-> "none", pull |-> p]
  ELSE IF ~p.opts.ConflictResolver THEN [err |-> "UserCancelled", pull |-> p]
  ELSE LET r == Resolve(p.result.FilesWithConflicts, ans, 1)
           filtered == SelectSeq(p.filesToWrite,
                                 LAMBDA w : w.file \notin r.skips)
       IN IF r.err # "none" THEN [err |-> r.err, pull |-> p]
          ELSE [err |-> "none",
                pull |-> [p EXCEPT
                   !.filesToWrite = filtered,
                   !.resolvedSkips = r.skips,
                   !.result.FilesSkippedConflict =
                      Len(p.filesToWrite) - Len(filtered),
                   !.result.FilesWithConflicts = <<>>]]

\* A conflict handling that counts the skipped files and still writes them
HandleConflicts_NoFilter(p, ans) ==
  IF ~HasConflicts(p) THEN [err |-> "none", pull |-> p]
  ELSE IF ~p.opts.ConflictResolver THEN [err |-> "Conflict", pull |-> p]
  ELSE LET r == Resolve(p.result.FilesWithConflicts, ans, 1)
       IN IF r.err # "none" THEN [err |-> r.err, pull |-> p]
          ELSE [err |-> "none",
                pull |-> [p EXCEPT
                   !.resolvedSkips = r.skips,
                   !.result.FilesSkippedConflict = Cardinality(r.skips),
                   !.result.FilesWithConflicts = <<>>]]

\* A pull that does not look at the conflicts and goes on to write
HandleConflicts_Ignored(p, ans) == [err |-> "none", pull |-> p]

\* pull.go:94-131 on the pull p with the resolver's answers ans: the error
\* returned ("none": Pull goes on) and the pull after it
HandleConflicts(p, ans) ==
  IF ~HasConflicts(p) THEN [err |-> "none", pull |-> p]
  ELSE IF ~p.opts.ConflictResolver THEN [err |-> "Conflict", pull |-> p]
  ELSE LET r == Resolve(p.result.FilesWithConflicts, ans, 1)
           filtered == SelectSeq(p.filesToWrite,
                                 LAMBDA w : w.file \notin r.skips)
       IN IF r.err # "none" THEN [err |-> r.err, pull |-> p]
          ELSE [err |-> "none",
                pull |-> [p EXCEPT
                   !.filesToWrite = filtered,
                   !.resolvedSkips = r.skips,
                   !.result.FilesSkippedConflict =
                      Len(p.filesToWrite) - Len(filtered),
                   !.result.FilesWithConflicts = <<>>]]

\* A second pass that writes nothing
Written_Nothing(lc, ftw, n) == lc

\* pull.go:145-156: the project files after the first n writes
RECURSIVE Written(_, _, _)
Written(lc, ftw, n) ==
  IF n = 0 THEN lc
  ELSE [Written(lc, ftw, n - 1) EXCEPT ![ftw[n].file] = ftw[n].decrypted]

\* A pull that writes each file as soon as it is decrypted: the files before
\* the k-th are written when its decryption fails
FailedFirstPass_WritesAsItGoes(tree, lc, k) ==
  LET ftw == FirstPass(tree, lc, k - 1).filesToWrite
  IN Written(lc, ftw, Len(ftw))

\* pull.go:58-70: the project files when the decryption of the k-th tracked
\* file fails; the first pass only collects filesToWrite
FailedFirstPass(tree, lc, k) == lc

\* pull.go:135-141, 151-155: the counts of the files written
Counted(res, ftw) ==
  [res EXCEPT
     !.FilesCreated = Cardinality({i \in 1..Len(ftw) : ftw[i].isNew}),
     !.FilesUpdated = Cardinality({i \in 1..Len(ftw) : ~ftw[i].isNew})]

InFlight == Cardinality({c \in Clients : pc[c] # "idle"})

\* ----------------------------------------------------------------- Init
\* Two machines with a checkout of the same project, no cache yet, and an
\* empty remote prefix.
Boot(turns) ==
  /\ objects = [k \in FileSet \cup {HeadKey} |-> NoFile]
  /\ local = [c \in Clients |->
               [f \in FileSet |-> IF c = "A" THEN 1
                                  ELSE IF f = EnvFiles[1] THEN 2 ELSE Absent]]
  /\ initialized = [c \in Clients |-> FALSE]
  /\ files = [c \in Clients |-> [f \in FileSet |-> NoFile]]
  /\ head = [c \in Clients |-> NoHash]
  /\ commits = [c \in Clients |-> <<>>]
  /\ trees = [h \in Hashes |-> EmptyTree]
  /\ pc = [c \in Clients |-> "idle"]
  /\ opts = [c \in Clients |-> NoOpts]
  /\ initialRemoteHead = [c \in Clients |-> NoHash]
  /\ result = [c \in Clients |-> EmptyResult]
  /\ err = [c \in Clients |-> "none"]
  /\ plan = [c \in Clients |-> NoPlan]
  /\ upIdx = [c \in Clients |-> 0]
  /\ refetch = [c \in Clients |-> "none"]
  /\ nextHash = 1
  /\ faults = 0
  /\ edits = 0
  /\ lastKnown = [c \in Clients |-> NoHash]
  /\ stale = [c \in Clients |-> FALSE]
  /\ pending = [c \in Clients |-> {}]
  /\ unpushed = [c \in Clients |-> FALSE]
  /\ hadUnpushed = [c \in Clients |-> NoHash]
  /\ interfered = [c \in Clients |-> FALSE]
  /\ pull = [c \in Clients |-> NoPull]
  /\ seq = turns
  /\ ops = 0
  /\ last = [c \in Clients |-> "none"]
  /\ trip = [c \in Clients |-> NoTrip]

\* No call of GetRemoteHead on its own
NoHeadCall == [data |-> <<>>, called |-> FALSE, head |-> <<>>, err |-> "none"]

\* An error value: its kind, and the status code of a googleapi.Error
Err(kind, code) == [kind |-> kind, code |-> code]
Nil == Err("nil", 0)

\* No call of WithRetry, or of RetryingStorage.Upload, on its own
NoRetry == [op |-> "none", phase |-> "none", attempt |-> 0, calls |-> 0,
            ctx |-> "live",
            out |-> Nil, lastErr |-> Nil, ret |-> Nil]

\* No call that takes a path on its own
NoPathCall == [op |-> "none", base |-> <<>>, rel |-> <<>>, opened |-> FALSE,
               called |-> FALSE, path |-> <<>>, err |-> "none",
               touched |-> <<>>]

\* No call of Resolve, of Encrypt or Decrypt, or on two repositories on its own
NoCall == [op |-> "none"]

\* What the behaviours of the whole program leave alone
auxVars == <<headCall, retry, pathCall, passCall, cryptCall, repoCall>>

\* No call on its own
NoCalls ==
  /\ headCall = NoHeadCall /\ retry = NoRetry /\ pathCall = NoPathCall
  /\ passCall = NoCall /\ cryptCall = NoCall /\ repoCall = NoCall

\* The clients run concurrently.
Init == Boot(0) /\ NoCalls

\* The clients take turns: an operation starts when no other is running.
InitSeq == Boot(MaxOps) /\ NoCalls

\* The same, for the behaviours with pulls at a pinned ref.
InitRef == Boot(MaxRefOps) /\ NoCalls

\* ------------------------------------------------------------- actions
Fault == faults < MaxFaults /\ faults' = faults + 1

cacheVars == <<initialized, files, head, commits>>
envVars   == <<local, edits>>
runVars   == <<opts, initialRemoteHead, plan, upIdx, refetch, stale,
               interfered>>

\* Push returns (e, res) to its caller; the state of the call is gone.
\* interfered is left to the action, since an upload sets it for the others.
Return(c, e, res) ==
  /\ pc' = [pc EXCEPT ![c] = "idle"]
  /\ err' = [err EXCEPT ![c] = e]
  /\ result' = [result EXCEPT ![c] = res]
  /\ opts' = [opts EXCEPT ![c] = NoOpts]
  /\ initialRemoteHead' = [initialRemoteHead EXCEPT ![c] = NoHash]
  /\ plan' = [plan EXCEPT ![c] = NoPlan]
  /\ upIdx' = [upIdx EXCEPT ![c] = 0]
  /\ refetch' = [refetch EXCEPT ![c] = "none"]
  /\ stale' = [stale EXCEPT ![c] = FALSE]

\* Push returns an error without having uploaded anything in this step.
Fail(c, e) ==
  /\ Return(c, e, EmptyResult)
  /\ interfered' = [interfered EXCEPT ![c] = FALSE]

\* The step moves the push of c to position p and no more.
Goto(c, p) ==
  /\ pc' = [pc EXCEPT ![c] = p]
  /\ UNCHANGED <<err, result>>

\* When the clients take turns, c may take a step if it is in an operation,
\* or if no client is.
Turn(c) == pc[c] # "idle" \/ (InFlight = 0 /\ ops < seq)

\* What a step of c's push, or an edit by c, leaves of the history kept
\* when the clients take turns; Pull is untouched.
Track(c) ==
  /\ seq > 0 => Turn(c)
  /\ UNCHANGED <<pull, seq, auxVars>>
  /\ ops' = IF seq > 0 /\ pc[c] = "idle" /\ pc'[c] # "idle" THEN ops + 1 ELSE ops
  /\ last' = [d \in Clients |->
       IF seq = 0 THEN last[d]
       ELSE IF d # c THEN (IF objects' # objects THEN "none" ELSE last[d])
       ELSE IF pc[c] = "idle" /\ pc'[c] = "idle" THEN "none"
       ELSE IF pc'[c] # "idle" THEN last[c]
       ELSE IF opts[c].DryRun THEN "none"
       ELSE IF err'[c] = "ok" THEN "pushed"
       ELSE IF err'[c] = "NothingToCommit" THEN "nothing"
       ELSE "none"]
  /\ trip' = [d \in Clients |->
       IF seq = 0 THEN trip[d]
       ELSE IF d # c THEN (IF objects' # objects THEN NoTrip ELSE trip[d])
       ELSE IF pc[c] = "idle" /\ pc'[c] = "idle"
                /\ (last[c] = "pushed" \/ trip[c] # NoTrip)
                /\ \A f \in FileSet :
                     local'[c][f] # local[c][f] => local'[c][f] = Absent
       THEN [f \in FileSet |-> IF local'[c][f] # local[c][f]
                               THEN local[c][f] ELSE trip[c][f]]
       ELSE NoTrip]

\* The user changes, creates or removes a tracked file of the project.
EditLocal(c, f, v) ==
  /\ pc[c] = "idle"
  /\ edits < MaxEdits
  /\ v # local[c][f]
  /\ local' = [local EXCEPT ![c][f] = v]
  /\ edits' = edits + 1
  /\ pending' = [pending EXCEPT ![c] = @ \ {f}]
  /\ UNCHANGED hadUnpushed
  /\ UNCHANGED <<objects, cacheVars, pc, err, result, runVars, nextHash, faults,
                 lastKnown, unpushed>>
  /\ UNCHANGED trees
  /\ Track(c)

\* Syncer.Push is called.
StartPush(c, force, dry) ==
  /\ pc[c] = "idle"
  /\ nextHash + InFlight <= MaxCommits
  /\ pc' = [pc EXCEPT ![c] = "ensure"]
  /\ opts' = [opts EXCEPT ![c] = [Force |-> force, DryRun |-> dry]]
  /\ result' = [result EXCEPT ![c] = EmptyResult]
  /\ err' = [err EXCEPT ![c] = "none"]
  /\ stale' = [stale EXCEPT ![c] = lastKnown[c] # NoHash
                                    /\ GetRemoteHead # lastKnown[c]]
  /\ hadUnpushed' = [hadUnpushed EXCEPT ![c] =
                       IF unpushed[c] THEN head[c] ELSE NoHash]
  /\ UNCHANGED <<objects, cacheVars, envVars, initialRemoteHead, plan, upIdx,
                 refetch, interfered, nextHash, faults, lastKnown, pending,
                 unpushed>>
  /\ UNCHANGED trees
  /\ Track(c)

\* Cache.SyncFromStorage after n downloads: the first n listed objects are in
\* the working tree (the HEAD object is skipped).
Downloaded(n) ==
  [f \in FileSet |->
     IF \E i \in 1..n : ListLocalFiles(objects)[i] = f THEN objects[f]
     ELSE NoFile]

\* Syncer.EnsureCacheInitialized.  The listing and the downloads of one
\* SyncFromStorage are taken as one step.
EnsureCacheInitialized(c) ==
  /\ pc[c] = "ensure"
  /\ IF initialized[c]
     THEN UNCHANGED <<initialized, files>>
     ELSE /\ initialized' = [initialized EXCEPT ![c] = TRUE]
          /\ files' = [files EXCEPT ![c] =
                         IF ExistsRemote
                         THEN Downloaded(Len(ListLocalFiles(objects)))
                         ELSE @]
  /\ Goto(c, "snapshot")
  /\ UNCHANGED hadUnpushed
  /\ UNCHANGED <<objects, head, commits, runVars, envVars, nextHash, faults,
                 lastKnown, pending, unpushed>>
  /\ UNCHANGED trees
  /\ Track(c)

\* ExistsRemote returns an error (the cache is untouched), or SyncFromStorage
\* returns one after Init and n downloads.
EnsureFails(c) ==
  /\ pc[c] = "ensure"
  /\ ~initialized[c]
  /\ Fault
  /\ \/ UNCHANGED <<initialized, files>>
     \/ /\ ExistsRemote
        /\ \E n \in 0..Len(ListLocalFiles(objects)) :
             /\ n < Len(ListLocalFiles(objects)) \/ n = 0
             /\ files' = [files EXCEPT ![c] = Downloaded(n)]
        /\ initialized' = [initialized EXCEPT ![c] = TRUE]
  /\ Fail(c, "StorageError")
  /\ UNCHANGED hadUnpushed
  /\ UNCHANGED <<objects, head, commits, envVars, nextHash, lastKnown,
                 pending, unpushed>>
  /\ UNCHANGED trees
  /\ Track(c)

\* push.go:19-27: H0, unless --force; an error of GetRemoteHead leaves "".
Snapshot(c) ==
  /\ pc[c] = "snapshot"
  /\ initialRemoteHead' = [initialRemoteHead EXCEPT ![c] =
                             IF opts[c].Force THEN NoHash ELSE GetRemoteHead]
  /\ lastKnown' = [lastKnown EXCEPT ![c] =
                     IF opts[c].Force \/ GetRemoteHead = NoHash THEN @
                     ELSE GetRemoteHead]
  /\ Goto(c, "plan")
  /\ UNCHANGED hadUnpushed
  /\ UNCHANGED <<objects, cacheVars, opts, plan, upIdx, refetch, stale,
                 interfered, envVars, nextHash, faults, pending,
                 unpushed>>
  /\ UNCHANGED trees
  /\ Track(c)

\* The download of the HEAD object fails although the object exists.
SnapshotFails(c) ==
  /\ pc[c] = "snapshot"
  /\ ~opts[c].Force
  /\ ExistsRemote
  /\ Fault
  /\ Goto(c, "plan")
  /\ UNCHANGED hadUnpushed
  /\ UNCHANGED <<objects, cacheVars, runVars, envVars, nextHash, lastKnown,
                 pending, unpushed>>
  /\ UNCHANGED trees
  /\ Track(c)

\* push.go:29-103: the loop over the tracked files, NothingToCommit and the
\* dry-run return.
Plan(c) ==
  /\ pc[c] = "plan"
  /\ \E rnd \in [FileSet -> 1..MaxRand] :
       LET st == ProcessFiles(files[c], local[c], Len(EnvFiles),
                              opts[c].DryRun, rnd)
       IN /\ files' = [files EXCEPT ![c] = st.tree]
          /\ IF Changed(st.plan) = {}
             THEN Fail(c, "NothingToCommit")
             ELSE IF opts[c].DryRun
             THEN /\ Return(c, "ok", ResultOf(st.plan))
                  /\ interfered' = [interfered EXCEPT ![c] = FALSE]
             ELSE /\ plan' = [plan EXCEPT ![c] = st.plan]
                  /\ result' = [result EXCEPT ![c] = ResultOf(st.plan)]
                  /\ pc' = [pc EXCEPT ![c] = "stage"]
                  /\ UNCHANGED <<err, opts, initialRemoteHead, upIdx, refetch,
                                 stale, interfered>>
  /\ UNCHANGED hadUnpushed
  /\ UNCHANGED <<objects, initialized, head, commits, envVars, nextHash,
                 faults, lastKnown, pending, unpushed>>
  /\ UNCHANGED trees
  /\ Track(c)

\* The iteration on the k-th file returns an error: the earlier iterations
\* have already written to the cache.
PlanFails(c) ==
  /\ pc[c] = "plan"
  /\ Fault
  /\ \E k \in 1..Len(EnvFiles), rnd \in [FileSet -> 1..MaxRand] :
       LET st == ProcessFiles(files[c], local[c], k - 1, opts[c].DryRun, rnd)
       IN /\ CanFail(st.tree, local[c], EnvFiles[k], opts[c].DryRun)
          /\ files' = [files EXCEPT ![c] = st.tree]
          /\ pending' = [pending EXCEPT ![c] =
                           IF opts[c].DryRun THEN @ ELSE @ \cup Changed(st.plan)]
  /\ Fail(c, "Error")
  /\ UNCHANGED hadUnpushed
  /\ UNCHANGED <<objects, initialized, head, commits, envVars, nextHash,
                 lastKnown, unpushed>>
  /\ UNCHANGED trees
  /\ Track(c)

\* StageAll, in a Push that calls SyncToStorage before the check and the commit
StageAll_UploadFirst(c) ==
  /\ pc[c] = "stage"
  /\ pc' = [pc EXCEPT ![c] = "sync"]
  /\ upIdx' = [upIdx EXCEPT ![c] = 1]
  /\ UNCHANGED <<err, result, objects, cacheVars, opts, initialRemoteHead,
                 plan, refetch, stale, interfered, envVars, nextHash, faults,
                 lastKnown, pending, unpushed, hadUnpushed>>
  /\ UNCHANGED trees
  /\ Track(c)

\* Cache.StageAll (push.go:105-108)
StageAll(c) ==
  /\ pc[c] = "stage"
  /\ Goto(c, "verify")
  /\ UNCHANGED hadUnpushed
  /\ UNCHANGED <<objects, cacheVars, runVars, envVars, nextHash, faults,
                 lastKnown, pending, unpushed>>
  /\ UNCHANGED trees
  /\ Track(c)

StageFails(c) ==
  /\ pc[c] = "stage"
  /\ Fault
  /\ pending' = [pending EXCEPT ![c] = @ \cup Changed(plan[c])]
  /\ Fail(c, "StageFailed")
  /\ UNCHANGED hadUnpushed
  /\ UNCHANGED <<objects, cacheVars, envVars, nextHash, lastKnown, unpushed>>
  /\ UNCHANGED trees
  /\ Track(c)

\* The comparison with == written for !=
RemoteChanged_Inverted(initial, current) ==
  current # NoHash /\ current = initial

\* push.go:114: the comparison of the re-fetched HEAD (NoHash: the fetch
\* returned an error) with H0.
RemoteChanged(initial, current) == current # NoHash /\ current # initial

\* push.go:112: the re-fetch is made only without --force and with an H0.
Rechecks(c) == ~opts[c].Force /\ initialRemoteHead[c] # NoHash

\* push.go:110-117: the remote-head check after staging.
Verify(c) ==
  /\ pc[c] = "verify"
  /\ IF Rechecks(c) /\ RemoteChanged(initialRemoteHead[c], GetRemoteHead)
     THEN /\ Fail(c, "RemoteChanged")
          /\ pending' = [pending EXCEPT ![c] = @ \cup Changed(plan[c])]
     ELSE /\ Goto(c, "commit")
          /\ refetch' = [refetch EXCEPT ![c] =
                           IF ~Rechecks(c) THEN "skipped"
                           ELSE IF GetRemoteHead = NoHash THEN "failed"
                           ELSE "same"]
          /\ UNCHANGED <<opts, initialRemoteHead, plan, upIdx, stale,
                         interfered, pending>>
  /\ lastKnown' = [lastKnown EXCEPT ![c] =
                     IF Rechecks(c) /\ GetRemoteHead # NoHash
                     THEN GetRemoteHead ELSE @]
  /\ UNCHANGED hadUnpushed
  /\ UNCHANGED <<objects, cacheVars, envVars, nextHash, faults, unpushed>>
  /\ UNCHANGED trees
  /\ Track(c)

\* The re-fetch returns an error (err != nil at push.go:114): Push goes on.
VerifyFails(c) ==
  /\ pc[c] = "verify"
  /\ Rechecks(c)
  /\ Fault
  /\ refetch' = [refetch EXCEPT ![c] = "failed"]
  /\ Goto(c, "commit")
  /\ UNCHANGED hadUnpushed
  /\ UNCHANGED <<objects, cacheVars, opts, initialRemoteHead, plan, upIdx,
                 stale, interfered, envVars, nextHash, lastKnown,
                 pending, unpushed>>
  /\ UNCHANGED trees
  /\ Track(c)

\* push.go:119-129: Cache.Commit; the repository returns a fresh hash.
Commit(c) ==
  /\ pc[c] = "commit"
  /\ head' = [head EXCEPT ![c] = nextHash]
  /\ commits' = [commits EXCEPT ![c] = <<nextHash>> \o @]
  /\ trees' = [trees EXCEPT ![nextHash] = files[c]]
  /\ nextHash' = nextHash + 1
  /\ result' = [result EXCEPT ![c].CommitHash = nextHash]
  /\ upIdx' = [upIdx EXCEPT ![c] = 1]
  /\ pc' = [pc EXCEPT ![c] = "sync"]
  /\ unpushed' = [unpushed EXCEPT ![c] = TRUE]
  /\ pending' = [pending EXCEPT ![c] = {}]
  /\ UNCHANGED hadUnpushed
  /\ UNCHANGED <<objects, initialized, files, opts, initialRemoteHead, plan,
                 refetch, stale, interfered, err, envVars, faults,
                 lastKnown>>
  /\ Track(c)

CommitFails(c) ==
  /\ pc[c] = "commit"
  /\ Fault
  /\ pending' = [pending EXCEPT ![c] = @ \cup Changed(plan[c])]
  /\ Fail(c, "CommitFailed")
  /\ UNCHANGED hadUnpushed
  /\ UNCHANGED <<objects, cacheVars, envVars, nextHash, lastKnown, unpushed>>
  /\ UNCHANGED trees
  /\ Track(c)

\* An upload loop that starts at the second file
SyncList_SkipFirst(c) ==
  IF ListLocalFiles(files[c]) = <<>> THEN <<>>
  ELSE Tail(ListLocalFiles(files[c]))

\* A SyncToStorage that uploads only the files this push changed
SyncList_ChangedOnly(c) ==
  SelectSeq(ListLocalFiles(files[c]), LAMBDA f : f \in Changed(plan[c]))

\* cache.go:200: the files one SyncToStorage uploads
SyncList(c) == ListLocalFiles(files[c])

\* cache.go:213-219: the content of the HEAD object
HeadObject(c) == <<head[c]>>

\* An upload by c is seen by every other client that is in a push.
Disturb(c) ==
  [d \in Clients |-> IF d # c /\ pc[d] # "idle" THEN TRUE ELSE interfered[d]]

\* cache.go:206-210, 228-252: one iteration of the upload loop
UploadFile(c) ==
  /\ pc[c] = "sync"
  /\ upIdx[c] <= Len(SyncList(c))
  /\ objects' = [objects EXCEPT ![SyncList(c)[upIdx[c]]] =
                                   files[c][SyncList(c)[upIdx[c]]]]
  /\ upIdx' = [upIdx EXCEPT ![c] = @ + 1]
  /\ interfered' = Disturb(c)
  /\ UNCHANGED hadUnpushed
  /\ UNCHANGED <<cacheVars, pc, err, result, opts, initialRemoteHead, plan, refetch,
                 stale, envVars, nextHash, faults, lastKnown,
                 pending, unpushed>>
  /\ UNCHANGED trees
  /\ Track(c)

\* A HEAD upload that does not wait for the blobs
UploadHead_Early(c) ==
  /\ pc[c] = "sync"
  /\ objects' = [objects EXCEPT ![HeadKey] = HeadObject(c)]
  /\ Return(c, "ok", result[c])
  /\ interfered' = [Disturb(c) EXCEPT ![c] = FALSE]
  /\ unpushed' = [unpushed EXCEPT ![c] = FALSE]
  /\ lastKnown' = [lastKnown EXCEPT ![c] = head[c]]
  /\ UNCHANGED hadUnpushed
  /\ UNCHANGED <<cacheVars, envVars, nextHash, faults, pending>>
  /\ UNCHANGED trees
  /\ Track(c)

\* cache.go:212-224 and push.go:136: the HEAD upload, then Push returns.
UploadHead(c) ==
  /\ pc[c] = "sync"
  /\ upIdx[c] > Len(SyncList(c))
  /\ objects' = [objects EXCEPT ![HeadKey] = HeadObject(c)]
  /\ Return(c, "ok", result[c])
  /\ interfered' = [Disturb(c) EXCEPT ![c] = FALSE]
  /\ unpushed' = [unpushed EXCEPT ![c] = FALSE]
  /\ lastKnown' = [lastKnown EXCEPT ![c] = head[c]]
  /\ UNCHANGED hadUnpushed
  /\ UNCHANGED <<cacheVars, envVars, nextHash, faults, pending>>
  /\ UNCHANGED trees
  /\ Track(c)

\* An upload (of a blob or of HEAD) returns an error: push.go:132-134.
UploadFails(c) ==
  /\ pc[c] = "sync"
  /\ Fault
  /\ Fail(c, "UploadFailed")
  /\ UNCHANGED hadUnpushed
  /\ UNCHANGED <<objects, cacheVars, envVars, nextHash, lastKnown, pending,
                 unpushed>>
  /\ UNCHANGED trees
  /\ Track(c)

\* ------------------------------------------------------- pull actions
\* Repository.Checkout, ResolveRevision: the ref is a commit of c's cache.
Resolves(c, ref) == \E i \in 1..Len(commits[c]) : commits[c][i] = ref

\* Repository.Checkout with Force on the working tree wt: every file of the
\* commit's tree t gets the commit's blob; a file that t does not hold stays
\* when it is in keep and is removed otherwise.
CheckedOut(wt, t, keep) ==
  [f \in FileSet |-> IF t[f] # NoFile THEN t[f]
                     ELSE IF f \in keep THEN wt[f] ELSE NoFile]

\* What Pull never touches: the store, the commits and the state of Push.
pushVars == <<objects, commits, trees, opts, initialRemoteHead, result, plan,
              upIdx, refetch, nextHash, lastKnown, stale, pending, unpushed,
              hadUnpushed, interfered, edits>>

\* The history a step of c's pull leaves: the kind of the pull when it returns.
PullTrack(c) ==
  /\ Turn(c)
  /\ UNCHANGED <<seq, auxVars>>
  /\ ops' = IF pc[c] = "idle" THEN ops + 1 ELSE ops
  /\ trip' = [trip EXCEPT ![c] = IF pc'[c] # "idle" THEN @ ELSE NoTrip]
  /\ last' = [last EXCEPT ![c] =
       IF pc'[c] # "idle" THEN @
       ELSE IF err'[c] # "ok" THEN "none"
       ELSE IF pull[c].opts.Ref # NoHash
       THEN (IF pull[c].opts.Force /\ ~pull[c].opts.DryRun THEN "revert"
             ELSE "pullRef")
       ELSE IF pull[c].opts.DryRun THEN "pullDry"
       ELSE IF pull[c].resolvedSkips # {} THEN "pullSkip"
       ELSE "pull"]

\* Pull returns (res, e) to its caller.
PullReturn(c, e, res) ==
  /\ pc' = [pc EXCEPT ![c] = "idle"]
  /\ err' = [err EXCEPT ![c] = e]
  /\ pull' = [pull EXCEPT ![c] = [NoPull EXCEPT !.result = res]]

\* Syncer.Pull is called.
StartPull(c, ref, force, dry, resolver) ==
  /\ pc[c] = "idle"
  /\ pc' = [pc EXCEPT ![c] = "pull"]
  /\ err' = [err EXCEPT ![c] = "none"]
  /\ pull' = [pull EXCEPT ![c] =
                [NoPull EXCEPT !.opts = [Ref |-> ref, Force |-> force,
                                         DryRun |-> dry,
                                         ConflictResolver |-> resolver]]]
  /\ UNCHANGED <<pushVars, head, initialized, files, local, faults>>
  /\ PullTrack(c)

\* pull.go:15-42: ExistsRemote, SyncFromStorage, and Checkout or Head.
\* Checkout leaves a file of the working tree that the commit does not hold
\* in place or removes it (keep: the files left in place).
PullSync(c) ==
  /\ pc[c] = "pull"
  /\ IF ~ExistsRemote
     THEN /\ PullReturn(c, "RepoNotFound", EmptyPullResult)
          /\ UNCHANGED <<initialized, files, head>>
     ELSE LET synced == SyncedTree(files[c], Len(ListLocalFiles(objects)))
              ref    == pull[c].opts.Ref
          IN /\ initialized' = [initialized EXCEPT ![c] = TRUE]
             /\ IF ref = NoHash
                THEN /\ files' = [files EXCEPT ![c] = synced]
                     /\ pull' = [pull EXCEPT ![c].result.Ref = head[c]]
                     /\ pc' = [pc EXCEPT ![c] = "pplan"]
                     /\ UNCHANGED <<err, head>>
                ELSE IF ~Resolves(c, ref)
                THEN /\ files' = [files EXCEPT ![c] = synced]
                     /\ PullReturn(c, "RefNotFound", EmptyPullResult)
                     /\ UNCHANGED head
                ELSE /\ \E keep \in SUBSET FileSet :
                          files' = [files EXCEPT ![c] =
                                      CheckedOut(synced, trees[ref], keep)]
                     /\ head' = [head EXCEPT ![c] = ref]
                     /\ pull' = [pull EXCEPT ![c].result.Ref = ref]
                     /\ pc' = [pc EXCEPT ![c] = "pplan"]
                     /\ UNCHANGED err
  /\ UNCHANGED <<pushVars, local, faults>>
  /\ PullTrack(c)

\* ExistsRemote returns an error, or SyncFromStorage returns one after Init
\* and n downloads.
PullSyncFails(c) ==
  /\ pc[c] = "pull"
  /\ Fault
  /\ \/ UNCHANGED <<initialized, files>>
     \/ /\ ExistsRemote
        /\ \E n \in 0..Len(ListLocalFiles(objects)) :
             /\ n < Len(ListLocalFiles(objects)) \/ n = 0
             /\ files' = [files EXCEPT ![c] = SyncedTree(@, n)]
        /\ initialized' = [initialized EXCEPT ![c] = TRUE]
  /\ PullReturn(c, "StorageError", EmptyPullResult)
  /\ UNCHANGED <<pushVars, head, local>>
  /\ PullTrack(c)

\* pull.go:44-92: the first pass.
PullPlan(c) ==
  /\ pc[c] = "pplan"
  /\ LET st == FirstPass(files[c], local[c], Len(EnvFiles))
     IN pull' = [pull EXCEPT
          ![c].result.FilesSkipped = st.FilesSkipped,
          ![c].result.FilesWithConflicts = st.FilesWithConflicts,
          ![c].filesToWrite = st.filesToWrite]
  /\ pc' = [pc EXCEPT ![c] = "presolve"]
  /\ UNCHANGED <<pushVars, head, initialized, files, local, faults, err>>
  /\ PullTrack(c)

\* pull.go:67-70: the blob of a tracked file of the cache does not decrypt
\* (wrong passphrase, damaged blob); the files before it were processed.
PullDecryptFailsAt(c, k) ==
  /\ pc[c] = "pplan"
  /\ files[c][EnvFiles[k]] # NoFile
  /\ Fault
  /\ local' = [local EXCEPT ![c] = FailedFirstPass(files[c], @, k)]
  /\ PullReturn(c, "DecryptError", EmptyPullResult)
  /\ UNCHANGED <<pushVars, head, initialized, files>>
  /\ PullTrack(c)

PullDecryptFails(c) == \E k \in 1..Len(EnvFiles) : PullDecryptFailsAt(c, k)

\* pull.go:94-131: the conflicts; the resolver answers ans when it is asked.
PullResolveWith(c, ans) ==
  /\ pc[c] = "presolve"
  /\ LET h == HandleConflicts(pull[c], ans)
     IN IF h.err # "none"
        THEN PullReturn(c, h.err, h.pull.result)
        ELSE /\ pull' = [pull EXCEPT ![c] = h.pull]
             /\ pc' = [pc EXCEPT ![c] = "pwrite"]
             /\ UNCHANGED err
  /\ UNCHANGED <<pushVars, head, initialized, files, local, faults>>
  /\ PullTrack(c)

PullResolve(c) == \E ans \in [FileSet -> Answers] : PullResolveWith(c, ans)

\* pull.go:104-107: the resolver returns an error.
PullResolveFails(c) ==
  /\ pc[c] = "presolve"
  /\ HasConflicts(pull[c])
  /\ pull[c].opts.ConflictResolver
  /\ Fault
  /\ PullReturn(c, "ResolverError", pull[c].result)
  /\ UNCHANGED <<pushVars, head, initialized, files, local>>
  /\ PullTrack(c)

\* pull.go:133-163: the dry-run return, or the second pass and the return.
PullWrite(c) ==
  /\ pc[c] = "pwrite"
  /\ local' = [local EXCEPT ![c] =
                 IF pull[c].opts.DryRun THEN @
                 ELSE Written(@, pull[c].filesToWrite,
                              Len(pull[c].filesToWrite))]
  /\ PullReturn(c, "ok",
                [Counted(pull[c].result, pull[c].filesToWrite) EXCEPT
                   !.FilesWithConflicts =
                      IF pull[c].opts.Force /\ ~pull[c].opts.DryRun THEN <<>>
                      ELSE @])
  /\ UNCHANGED <<pushVars, head, initialized, files, faults>>
  /\ PullTrack(c)

\* pull.go:147-149: the k-th write returns an error, after k - 1 writes.
PullWriteFails(c) ==
  /\ pc[c] = "pwrite"
  /\ ~pull[c].opts.DryRun
  /\ Fault
  /\ \E k \in 1..Len(pull[c].filesToWrite) :
       local' = [local EXCEPT ![c] = Written(@, pull[c].filesToWrite, k - 1)]
  /\ PullReturn(c, "WriteError", EmptyPullResult)
  /\ UNCHANGED <<pushVars, head, initialized, files>>
  /\ PullTrack(c)

Next ==
  \E c \in Clients :
    \/ \E f \in FileSet, v \in Contents \cup {Absent} : EditLocal(c, f, v)
    \/ \E force \in BOOLEAN, dry \in BOOLEAN : StartPush(c, force, dry)
    \/ EnsureCacheInitialized(c)
    \/ EnsureFails(c)
    \/ Snapshot(c)
    \/ SnapshotFails(c)
    \/ Plan(c)
    \/ PlanFails(c)
    \/ StageAll(c)
    \/ StageFails(c)
    \/ Verify(c)
    \/ VerifyFails(c)
    \/ Commit(c)
    \/ CommitFails(c)
    \/ UploadFile(c)
    \/ UploadHead(c)
    \/ UploadFails(c)

Spec == Init /\ [][Next]_vars

NextSeq ==
  \E c \in Clients :
    \/ \E f \in FileSet, v \in Contents \cup {Absent} : EditLocal(c, f, v)
    \/ \E force \in BOOLEAN, dry \in BOOLEAN : StartPush(c, force, dry)
    \/ EnsureCacheInitialized(c)
    \/ EnsureFails(c)
    \/ Snapshot(c)
    \/ SnapshotFails(c)
    \/ Plan(c)
    \/ PlanFails(c)
    \/ StageAll(c)
    \/ StageFails(c)
    \/ Verify(c)
    \/ VerifyFails(c)
    \/ Commit(c)
    \/ CommitFails(c)
    \/ UploadFile(c)
    \/ UploadHead(c)
    \/ UploadFails(c)
    \/ \E force \in BOOLEAN, dry \in BOOLEAN, resolver \in BOOLEAN :
         StartPull(c, NoHash, force, dry, resolver)
    \/ PullSync(c)
    \/ PullSyncFails(c)
    \/ PullPlan(c)
    \/ PullDecryptFails(c)
    \/ PullResolve(c)
    \/ PullResolveFails(c)
    \/ PullWrite(c)
    \/ PullWriteFails(c)

SpecSeq == InitSeq /\ [][NextSeq]_vars

\* The clients take turns, pull also at a pinned ref (a commit created so far
\* or a hash that is no commit) and meet no I/O failure; no push is a dry
\* run and no pull has a resolver.
NextRef ==
  \E c \in Clients :
    \/ \E f \in FileSet, v \in Contents \cup {Absent} : EditLocal(c, f, v)
    \/ \E force \in BOOLEAN : StartPush(c, force, FALSE)
    \/ EnsureCacheInitialized(c)
    \/ Snapshot(c)
    \/ Plan(c)
    \/ StageAll(c)
    \/ Verify(c)
    \/ Commit(c)
    \/ UploadFile(c)
    \/ UploadHead(c)
    \/ \E ref \in 0..nextHash, force \in BOOLEAN, dry \in BOOLEAN :
         StartPull(c, ref, force, dry, FALSE)
    \/ PullSync(c)
    \/ PullPlan(c)
    \/ PullResolve(c)
    \/ PullWrite(c)

SpecRef == InitRef /\ [][NextRef]_vars

\* ------------------------------------------------- a damaged HEAD object
\* Something other than the program (an interrupted or foreign write to the
\* bucket) leaves a HEAD object whose content is not a hash.
CorruptHead ==
  /\ InFlight = 0
  /\ ExistsRemote
  /\ objects[HeadKey] # <<Corrupt>>
  /\ objects' = [objects EXCEPT ![HeadKey] = <<Corrupt>>]
  /\ last' = [c \in Clients |-> "none"]
  /\ trip' = [c \in Clients |-> NoTrip]
  /\ UNCHANGED <<local, initialized, files, head, commits, trees, pc, opts,
                 initialRemoteHead, result, err, plan, upIdx, refetch,
                 nextHash, faults, edits, lastKnown, stale, pending, unpushed,
                 hadUnpushed, interfered, pull, seq, ops, auxVars>>

\* The clients take turns at pushes and pulls, and the HEAD object can be
\* damaged between two operations.
NextCorrupt ==
  \/ CorruptHead
  \/ \E c \in Clients :
       \/ \E force \in BOOLEAN : StartPush(c, force, FALSE)
       \/ EnsureCacheInitialized(c)
       \/ Snapshot(c)
       \/ Plan(c)
       \/ StageAll(c)
       \/ Verify(c)
       \/ Commit(c)
       \/ UploadFile(c)
       \/ UploadHead(c)
       \/ \E force \in BOOLEAN : StartPull(c, NoHash, force, FALSE, FALSE)
       \/ PullSync(c)
       \/ PullPlan(c)
       \/ PullResolve(c)
       \/ PullWrite(c)

SpecCorrupt == InitSeq /\ [][NextCorrupt]_vars

\* ------------------------------------------------------- Cache.Reset
\* A process builds its Cache (NewCache) and calls Reset.  NewGoGitRepository
\* has opened the repository if there is one: the handle r.repo is non-nil
\* exactly when .git was there.
StartReset(c) ==
  /\ pc[c] = "idle"
  /\ Turn(c)
  /\ pc' = [pc EXCEPT ![c] = "reset"]
  /\ err' = [err EXCEPT ![c] = "none"]
  /\ ops' = ops + 1
  /\ UNCHANGED <<objects, local, initialized, files, head, commits, trees,
                 opts, initialRemoteHead, result, plan, upIdx, refetch,
                 nextHash, faults, edits, lastKnown, stale, pending, unpushed,
                 hadUnpushed, interfered, pull, seq, last, trip, auxVars>>

\* cache.go:444-463 with part_004:405-422: RemoveAll takes the directory with
\* the blobs and .git; SyncFromStorage downloads the blobs if the remote
\* exists; Init, called by SyncFromStorage or directly, creates .git with an
\* empty history only when the handle is nil and returns at once otherwise.
Reset(c) ==
  /\ pc[c] = "reset"
  /\ LET opened == initialized[c]
     IN initialized' = [initialized EXCEPT ![c] = ~opened]
  /\ files' = [files EXCEPT ![c] =
                 IF ExistsRemote THEN Downloaded(Len(ListLocalFiles(objects)))
                 ELSE EmptyTree]
  /\ head' = [head EXCEPT ![c] = NoHash]
  /\ commits' = [commits EXCEPT ![c] = <<>>]
  /\ pc' = [pc EXCEPT ![c] = "idle"]
  /\ err' = [err EXCEPT ![c] = "ok"]
  /\ pending' = [pending EXCEPT ![c] = {}]
  /\ unpushed' = [unpushed EXCEPT ![c] = FALSE]
  /\ last' = [last EXCEPT ![c] = "reset"]
  /\ trip' = [trip EXCEPT ![c] = NoTrip]
  /\ UNCHANGED <<objects, local, trees, opts, initialRemoteHead, result, plan,
                 upIdx, refetch, nextHash, faults, edits, lastKnown, stale,
                 hadUnpushed, interfered, pull, seq, ops, auxVars>>

\* The clients take turns at pushes, pulls and resets.
NextReset ==
  \E c \in Clients :
    \/ \E force \in BOOLEAN : StartPush(c, force, FALSE)
    \/ EnsureCacheInitialized(c)
    \/ Snapshot(c)
    \/ Plan(c)
    \/ StageAll(c)
    \/ Verify(c)
    \/ Commit(c)
    \/ UploadFile(c)
    \/ UploadHead(c)
    \/ \E force \in BOOLEAN : StartPull(c, NoHash, force, FALSE, FALSE)
    \/ PullSync(c)
    \/ PullPlan(c)
    \/ PullResolve(c)
    \/ PullWrite(c)
    \/ StartReset(c)
    \/ Reset(c)

SpecReset == InitSeq /\ [][NextReset]_vars

\* ------------------------------------------- the bytes of the HEAD object
\* cache.go:318, the length of a hash; cache.go:339, maxHeadSize
HashLength  == 40
maxHeadSize == 1024

Digits  == {"0", "1", "2", "3", "4", "5", "6", "7", "8", "9"}
LowerAF == {"a", "b", "c", "d", "e", "f"}

\* The white space strings.TrimSpace removes, as far as the contents below
\* hold it (it removes \v, \f, U+0085 and U+00A0 as well)
Space == {" ", "\t", "\n", "\r"}

\* cache.go:317-327
isValidGitHash(s) ==
  /\ Len(s) = HashLength
  /\ \A i \in 1..Len(s) :
       s[i] \in Digits \cup LowerAF \cup {"A", "B", "C", "D", "E", "F"}

\* strings.TrimSpace: the white space before the first and after the last
\* other character is removed
TrimSpace(s) ==
  LET keep == {i \in 1..Len(s) : s[i] \notin Space}
  IN IF keep = {} THEN <<>>
     ELSE SubSeq(s, CHOOSE i \in keep : \A j \in keep : i <= j,
                    CHOOSE i \in keep : \A j \in keep : j <= i)

\* cache.go:330-353 once the download has succeeded: LimitedReadAll,
\* TrimSpace, isValidGitHash
ReadRemoteHead(data) ==
  IF Len(data) > maxHeadSize THEN [head |-> <<>>, err |-> "DownloadFailed"]
  ELSE LET h == TrimSpace(data)
       IN IF ~isValidGitHash(h) THEN [head |-> <<>>, err |-> "DownloadFailed"]
          ELSE [head |-> h, err |-> "none"]

\* The contents the HEAD object is given: white space, n characters that are
\* all fill but the one at pos (0: none), which is odd, and white space
HeadContents ==
  LET Body(n, fill, pos, odd) == [i \in 1..n |-> IF i = pos THEN odd ELSE fill]
      Pad(n)  == [i \in 1..n |-> " "]
      Leads   == {<<>>, <<" ">>, <<"\n">>}
      Trails  == {<<>>, <<"\n">>, <<"\r", "\n">>, <<" ", "\t">>,
                  Pad(maxHeadSize - HashLength + 1)}
      Lengths == {0, HashLength - 1, HashLength, HashLength + 1}
      Fills   == {"a", "7"}
      Odds    == {"f", "0", "A", "F", "g", "G", "z", " ", "-"}
  IN {l \o Body(n, fill, pos, odd) \o t :
        l \in Leads, t \in Trails, n \in Lengths, fill \in Fills,
        pos \in {0, 1, HashLength}, odd \in Odds}

\* The remote HEAD object holds any of the contents; no client runs.
InitHead ==
  /\ Boot(0)
  /\ \E d \in HeadContents : headCall = [NoHeadCall EXCEPT !.data = d]
  /\ retry = NoRetry
  /\ pathCall = NoPathCall
  /\ passCall = NoCall /\ cryptCall = NoCall /\ repoCall = NoCall

\* Cache.GetRemoteHead is called and the download succeeds.
CallGetRemoteHead ==
  /\ ~headCall.called
  /\ LET r == ReadRemoteHead(headCall.data)
     IN headCall' = [headCall EXCEPT !.called = TRUE, !.head = r.head,
                                     !.err = r.err]
  /\ UNCHANGED <<objects, local, initialized, files, head, commits, trees, pc,
                 opts, initialRemoteHead, result, err, plan, upIdx, refetch,
                 nextHash, faults, edits, lastKnown, stale, pending, unpushed,
                 hadUnpushed, interfered, pull, seq, ops, last, trip, retry,
                 pathCall, passCall, cryptCall, repoCall>>

NextHead == CallGetRemoteHead

SpecHead == InitHead /\ [][NextHead]_vars

TypeOK ==
  /\ \A c \in Clients :
       /\ pc[c] \in {"idle", "ensure", "snapshot", "plan", "stage", "verify",
                     "commit", "sync", "pull", "pplan", "presolve", "pwrite",
                     "reset"}
       /\ head[c] \in Hashes \cup {NoHash}
       /\ initialRemoteHead[c] \in Hashes \cup {NoHash}
       /\ pc[c] = "idle" => opts[c] = NoOpts /\ plan[c] = NoPlan
  /\ nextHash \in 1..(MaxCommits + 1)

\* ------------------------------------------------------------ WithRetry
\* limited.go:265
DefaultMaxRetries == 3

\* The errors a wrapped operation returns: a net.Error that is or is not a
\* timeout, a googleapi.Error with its status code, the errors of the
\* context, the not-found errors of the storage and of the domain, and any
\* other error
FnErrors ==
  {Err(k, 0) : k \in {"net.Timeout", "net.Other", "context.Canceled",
                      "context.DeadlineExceeded", "ErrObjectNotExist",
                      "ErrBucketNotExist", "ErrFileNotFound", "other"}}
  \cup {Err("googleapi", code) :
          code \in {400, 401, 403, 404, 408, 409, 429, 500, 501, 502, 503, 504}}

\* A test that takes every error for a transient one
isRetryableError_Any(e) == e # Nil

\* limited.go:289-331
isRetryableError(e) ==
  IF e = Nil THEN FALSE
  ELSE IF e.kind \in {"context.Canceled", "context.DeadlineExceeded"}
  THEN FALSE
  ELSE IF e.kind \in {"ErrObjectNotExist", "ErrBucketNotExist"} THEN FALSE
  ELSE IF e.kind \in {"net.Timeout", "net.Other"} THEN e.kind = "net.Timeout"
  ELSE IF e.kind = "googleapi"
  THEN e.code \in {408, 429, 500, 502, 503, 504}
  ELSE FALSE

\* ctx.Err() of a context that is done
CtxErr(ctx) == Err(ctx, 0)

\* WithRetry returns e.
RetryReturns(r, e) == [r EXCEPT !.phase = "done", !.ret = e]

\* WithRetry is called with the default configuration (by Download, List,
\* Delete or Exists of RetryingStorage), or RetryingStorage.Upload is called;
\* the context may be done already.
InitRetry ==
  /\ Boot(0)
  /\ headCall = NoHeadCall
  /\ pathCall = NoPathCall
  /\ passCall = NoCall /\ cryptCall = NoCall /\ repoCall = NoCall
  /\ \E ctx \in {"live", "context.Canceled", "context.DeadlineExceeded"},
        op \in {"WithRetry", "Upload"} :
       retry = [NoRetry EXCEPT !.op = op, !.phase = "call", !.ctx = ctx]

progVars == <<objects, local, initialized, files, head, commits, trees, pc,
              opts, initialRemoteHead, result, err, plan, upIdx, refetch,
              nextHash, faults, edits, lastKnown, stale, pending, unpushed,
              hadUnpushed, interfered, pull, seq, ops, last, trip>>

\* limited.go:347-370: one pass of the loop, fn returning e, up to the select.
\* The timer of the select has just been started, so on entry only the
\* context can be ready.
CallFn(e) ==
  /\ retry.op = "WithRetry"
  /\ retry.phase = "call"
  /\ LET r == [retry EXCEPT !.calls = @ + 1, !.out = e,
                            !.lastErr = IF e = Nil THEN @ ELSE e]
     IN retry' =
          IF e = Nil THEN RetryReturns(r, Nil)
          ELSE IF ~isRetryableError(e) THEN RetryReturns(r, e)
          ELSE IF retry.attempt = DefaultMaxRetries
          THEN RetryReturns(r, r.lastErr)
          ELSE IF retry.ctx # "live" THEN RetryReturns(r, CtxErr(retry.ctx))
          ELSE [r EXCEPT !.phase = "wait"]
  /\ UNCHANGED <<progVars, headCall, pathCall, passCall, cryptCall, repoCall>>

\* limited.go:371-372: the backoff elapses first; the loop goes on.
TimerFires ==
  /\ retry.phase = "wait"
  /\ retry' = [retry EXCEPT !.phase = "call", !.attempt = @ + 1]
  /\ UNCHANGED <<progVars, headCall, pathCall, passCall, cryptCall, repoCall>>

\* The context is cancelled or its deadline passes; a WithRetry that waits in
\* the select returns ctx.Err() (limited.go:369-370).
CtxDone(kind) ==
  /\ retry.phase \in {"call", "wait"}
  /\ retry.ctx = "live"
  /\ retry' = IF retry.phase = "wait"
              THEN RetryReturns([retry EXCEPT !.ctx = kind], CtxErr(kind))
              ELSE [retry EXCEPT !.ctx = kind]
  /\ UNCHANGED <<progVars, headCall, pathCall, passCall, cryptCall, repoCall>>

\* An Upload that goes through the loop of WithRetry
Upload_Retried(r, e) ==
  LET n == [r EXCEPT !.calls = @ + 1, !.out = e,
                     !.lastErr = IF e = Nil THEN @ ELSE e]
  IN IF e = Nil \/ ~isRetryableError(e) \/ r.attempt = DefaultMaxRetries
     THEN RetryReturns(n, e)
     ELSE [n EXCEPT !.attempt = @ + 1]

\* limited.go:399-403: the upload of the wrapped storage is called and what
\* it returns is returned
Upload(r, e) ==
  RetryReturns([r EXCEPT !.calls = @ + 1, !.out = e,
                         !.lastErr = IF e = Nil THEN @ ELSE e], e)

\* RetryingStorage.Upload runs, the wrapped upload returning e.
CallUpload(e) ==
  /\ retry.op = "Upload"
  /\ retry.phase = "call"
  /\ retry' = Upload(retry, e)
  /\ UNCHANGED <<progVars, headCall, pathCall, passCall, cryptCall, repoCall>>

NextRetry ==
  \/ \E e \in FnErrors \cup {Nil} : CallFn(e)
  \/ \E e \in FnErrors \cup {Nil} : CallUpload(e)
  \/ TimerFires
  \/ \E kind \in {"context.Canceled", "context.DeadlineExceeded"} :
       CtxDone(kind)

SpecRetry == InitRetry /\ [][NextRetry]_vars

\* ---------------------------------------------------------------- paths
\* A path is the sequence of its characters.
Sep       == "/"
DotDot    == <<".", ".">>

\* The strings of at most n characters, over the separator, the dot and a
\* letter
RECURSIVE Strings(_)
Strings(n) ==
  IF n = 0 THEN {<<>>}
  ELSE LET S == Strings(n - 1)
       IN S \cup {Append(t, ch) : t \in {u \in S : Len(u) = n - 1},
                                  ch \in {Sep, ".", "a"}}

\* strings.HasPrefix, strings.Contains
HasPrefix(str, prefix) ==
  Len(str) >= Len(prefix) /\ SubSeq(str, 1, Len(prefix)) = prefix
Contains(str, sub) ==
  \E i \in 0..(Len(str) - Len(sub)) : SubSeq(str, i + 1, i + Len(sub)) = sub

\* The components of a path, the empty ones included
RECURSIVE Split(_)
Split(str) ==
  IF \A i \in 1..Len(str) : str[i] # Sep THEN <<str>>
  ELSE LET i == CHOOSE i \in 1..Len(str) :
                  str[i] = Sep /\ \A j \in 1..(i - 1) : str[j] # Sep
       IN <<SubSeq(str, 1, i - 1)>> \o Split(SubSeq(str, i + 1, Len(str)))

RECURSIVE JoinComps(_)
JoinComps(comps) ==
  IF comps = <<>> THEN <<>>
  ELSE IF Len(comps) = 1 THEN comps[1]
  ELSE comps[1] \o <<Sep>> \o JoinComps(Tail(comps))

\* filepath.Clean on the components: empty and "." components go, ".." takes
\* the component before it, or stays in front of a path that is not rooted
RECURSIVE Lexical(_, _, _)
Lexical(comps, rooted, out) ==
  IF comps = <<>> THEN out
  ELSE LET c == Head(comps)
           rest == Tail(comps)
       IN IF c = <<>> \/ c = <<".">> THEN Lexical(rest, rooted, out)
          ELSE IF c # DotDot THEN Lexical(rest, rooted, Append(out, c))
          ELSE IF out # <<>> /\ out[Len(out)] # DotDot
          THEN Lexical(rest, rooted, SubSeq(out, 1, Len(out) - 1))
          ELSE IF rooted THEN Lexical(rest, rooted, out)
          ELSE Lexical(rest, rooted, Append(out, DotDot))

\* filepath.Clean, filepath.IsAbs and filepath.Join of two paths (Unix)
Clean(str) ==
  IF str = <<>> THEN <<".">>
  ELSE LET rooted == str[1] = Sep
           out == Lexical(Split(str), rooted, <<>>)
       IN IF rooted THEN <<Sep>> \o JoinComps(out)
          ELSE IF out = <<>> THEN <<".">>
          ELSE JoinComps(out)
IsAbs(str) == Len(str) > 0 /\ str[1] = Sep
Join(a, b) ==
  IF a = <<>> /\ b = <<>> THEN <<>>
  ELSE IF a = <<>> THEN Clean(b)
  ELSE IF b = <<>> THEN Clean(a)
  ELSE Clean(a \o <<Sep>> \o b)

\* securejoin.SecureJoin of the library, in a directory tree without a
\* symbolic link: the path is resolved as if root were the root directory
LibSecureJoin(root, unsafePath) == Join(root, Clean(<<Sep>> \o unsafePath))

\* pathutil.SecureJoin
SecureJoin(baseDir, relativePath) ==
  LET cleaned == Clean(relativePath)
      safePath == LibSecureJoin(baseDir, relativePath)
      fails == [path |-> <<>>, err |-> "InvalidArgs"]
  IN IF IsAbs(cleaned) THEN fails
     ELSE IF HasPrefix(cleaned, DotDot) \/ Contains(cleaned, <<Sep>> \o DotDot)
     THEN fails
     ELSE IF safePath # baseDir /\ ~HasPrefix(safePath, baseDir \o <<Sep>>)
     THEN fails
     ELSE [path |-> safePath, err |-> "none"]

AgeExtension == <<".", "a", "g", "e">>

\* GoGitRepository.ReadFile at the working tree, WriteFile and RemoveFile: the
\* results the call can have, each with the file it touched (<<>> for none).
\* What the file system answers is open; so is what the library's
\* Worktree.Remove does with a path.
ReadFile(r_path, opened, path) ==
  IF ~opened THEN {[touched |-> <<>>, err |-> "NotInitialized"]}
  ELSE {[touched |-> Join(r_path, path), err |-> e] :
          e \in {"none", "FileNotFound", "GitError"}}
WriteFile(r_path, opened, path) ==
  {[touched |-> Join(r_path, path), err |-> e] : e \in {"none", "GitError"}}
RemoveFile(r_path, opened, path) ==
  IF ~opened THEN {[touched |-> <<>>, err |-> "NotInitialized"]}
  ELSE {[touched |-> t, err |-> e] :
          t \in {<<>>, Join(r_path, path)}, e \in {"none", "GitError"}}

\* SecureJoin or a cache operation is called with any path and a base
\* directory that is absolute and clean: the root directory, a directory in
\* it or one below that.
InitPath ==
  /\ Boot(0)
  /\ headCall = NoHeadCall
  /\ retry = NoRetry
  /\ passCall = NoCall /\ cryptCall = NoCall /\ repoCall = NoCall
  /\ \E op \in {"SecureJoin", "ReadEncrypted", "WriteEncrypted",
                 "RemoveEncrypted"},
        base \in {<<Sep>>, <<Sep, "a">>, <<Sep, "a", Sep, "a">>},
        rel \in Strings(MaxPathLen), opened \in BOOLEAN :
       /\ op = "SecureJoin" => ~opened
       /\ pathCall = [NoPathCall EXCEPT !.op = op, !.base = base, !.rel = rel,
                                        !.opened = opened]

\* pathutil.SecureJoin is called.
CallSecureJoin ==
  /\ pathCall.op = "SecureJoin"
  /\ ~pathCall.called
  /\ LET r == SecureJoin(pathCall.base, pathCall.rel)
     IN pathCall' = [pathCall EXCEPT !.called = TRUE, !.path = r.path,
                                     !.err = r.err]
  /\ UNCHANGED <<progVars, headCall, retry, passCall, cryptCall, repoCall>>

\* Cache.ReadEncrypted, WriteEncrypted and RemoveEncrypted are called with
\* the repository at the base directory, opened or not.
CallReadEncrypted ==
  /\ pathCall.op = "ReadEncrypted"
  /\ ~pathCall.called
  /\ \E r \in ReadFile(pathCall.base, pathCall.opened,
                        pathCall.rel \o AgeExtension) :
       pathCall' = [pathCall EXCEPT !.called = TRUE, !.touched = r.touched,
                                    !.err = r.err]
  /\ UNCHANGED <<progVars, headCall, retry, passCall, cryptCall, repoCall>>

CallWriteEncrypted ==
  /\ pathCall.op = "WriteEncrypted"
  /\ ~pathCall.called
  /\ \E r \in WriteFile(pathCall.base, pathCall.opened,
                         pathCall.rel \o AgeExtension) :
       pathCall' = [pathCall EXCEPT !.called = TRUE, !.touched = r.touched,
                                    !.err = r.err]
  /\ UNCHANGED <<progVars, headCall, retry, passCall, cryptCall, repoCall>>

CallRemoveEncrypted ==
  /\ pathCall.op = "RemoveEncrypted"
  /\ ~pathCall.called
  /\ \E r \in RemoveFile(pathCall.base, pathCall.opened,
                          pathCall.rel \o AgeExtension) :
       pathCall' = [pathCall EXCEPT !.called = TRUE, !.touched = r.touched,
                                    !.err = r.err]
  /\ UNCHANGED <<progVars, headCall, retry, passCall, cryptCall, repoCall>>

NextPath ==
  \/ CallSecureJoin
  \/ CallReadEncrypted
  \/ CallWriteEncrypted
  \/ CallRemoveEncrypted

SpecPath == InitPath /\ [][NextPath]_vars

\* ------------------------------------------------- PassphraseResolver
\* runCommandArgs: the passphrase the command printed, or an error
runCommandArgs(c) ==
  IF c.command = "prints" THEN [pass |-> "printed", err |-> "none"]
  ELSE [pass |-> "", err |-> "error"]

\* promptInteractive
promptInteractive(c) ==
  IF c.typed \in {"", "readError"} THEN [pass |-> "", err |-> "NoPassphrase"]
  ELSE [pass |-> c.typed, err |-> "none"]

\* PassphraseResolver.Resolve; tried lists the sources it consulted
ResolvePassphrase(c) ==
  LET env == IF c.PassphraseEnv THEN <<"env">> ELSE <<>>
  IN IF c.PassphraseEnv /\ c.envValue # ""
     THEN [pass |-> c.envValue, err |-> "none", tried |-> env]
     ELSE IF c.command # "none"
     THEN [pass |-> runCommandArgs(c).pass,
           err |-> IF runCommandArgs(c).err # "none" THEN "NoPassphrase"
                   ELSE "none",
           tried |-> env \o <<"command">>]
     ELSE IF c.terminal
     THEN [pass |-> promptInteractive(c).pass,
           err |-> promptInteractive(c).err,
           tried |-> env \o <<"prompt">>]
     ELSE [pass |-> "", err |-> "NoPassphrase", tried |-> env]

\* Resolve is called with any configuration, environment and terminal.  The
\* configured command prints a passphrase, exits with an error, prints
\* nothing or runs into PassphraseCommandTimeout; at the prompt the user
\* types a passphrase or nothing, or the read fails.
InitPass ==
  /\ Boot(0)
  /\ headCall = NoHeadCall /\ retry = NoRetry /\ pathCall = NoPathCall
  /\ cryptCall = NoCall /\ repoCall = NoCall
  /\ \E PassphraseEnv \in BOOLEAN, envValue \in {"", "fromEnv"},
        command \in {"none", "prints", "fails", "empty", "timeout"},
        terminal \in BOOLEAN, typed \in {"typed", "", "readError"} :
       passCall = [op |-> "Resolve", PassphraseEnv |-> PassphraseEnv,
                   envValue |-> envValue, command |-> command,
                   terminal |-> terminal, typed |-> typed, called |-> FALSE,
                   pass |-> "", err |-> "none", tried |-> <<>>]

CallResolve ==
  /\ passCall.op = "Resolve"
  /\ ~passCall.called
  /\ LET r == ResolvePassphrase(passCall)
     IN passCall' = [passCall EXCEPT !.called = TRUE, !.pass = r.pass,
                                     !.err = r.err, !.tried = r.tried]
  /\ UNCHANGED <<progVars, headCall, retry, pathCall, cryptCall, repoCall>>

NextPass ==
  \/ CallResolve

SpecPass == InitPass /\ [][NextPass]_vars

\* ----------------------------------------------------- AgeEncrypter
\* constants.MaxEnvFileSize and constants.MaxEncryptedFileSize, in bytes
MaxEnvFileSize       == 1048576   \* 1 * 1024 * 1024
MaxEncryptedFileSize == 2097152   \* 2 * 1024 * 1024

\* A plaintext is its length and its bytes (which of the contents of that
\* length it is); the lengths are those next to the two limits.
Plaintexts ==
  [len : {0, 1, MaxEnvFileSize - 1, MaxEnvFileSize, MaxEnvFileSize + 1,
          MaxEncryptedFileSize - 1, MaxEncryptedFileSize,
          MaxEncryptedFileSize + 1},
   bytes : Contents]
NoPlain == [len |-> 0, bytes |-> 0]

\* limitedio.LimitedReadAll: at most maxBytes + 1 bytes are read
LimitedReadAll(data, maxBytes) ==
  LET n == IF data.len < maxBytes + 1 THEN data.len ELSE maxBytes + 1
  IN IF n > maxBytes THEN [data |-> NoPlain, err |-> "FileSizeTooLarge"]
     ELSE [data |-> data, err |-> "none"]

\* AgeEncrypter.Encrypt with the encrypter of a passphrase: the library's
\* ciphertext is a value that only its passphrase opens.
AgeEncrypt(passphrase, plaintext, r) ==
  [key |-> passphrase, plain |-> plaintext, rand |-> r]

\* AgeEncrypter.Decrypt with the encrypter of a passphrase
AgeDecrypt(passphrase, ciphertext) ==
  IF passphrase # ciphertext.key
  THEN [data |-> NoPlain, err |-> "DecryptFailed"]
  ELSE LimitedReadAll(ciphertext.plain, MaxEnvFileSize)

\* A plaintext is encrypted with one passphrase and decrypted with one.
InitCrypt ==
  /\ Boot(0)
  /\ headCall = NoHeadCall /\ retry = NoRetry /\ pathCall = NoPathCall
  /\ passCall = NoCall /\ repoCall = NoCall
  /\ \E p \in {"p", "q"}, q \in {"p", "q"}, b \in Plaintexts :
       cryptCall = [op |-> "Encrypt", p |-> p, q |-> q, plain |-> b,
                    blob |-> <<>>, out |-> NoPlain, err |-> "none"]

CallEncrypt ==
  /\ cryptCall.op = "Encrypt"
  /\ \E r \in 1..MaxRand :
       cryptCall' = [cryptCall EXCEPT
                       !.op = "Decrypt",
                       !.blob = AgeEncrypt(cryptCall.p, cryptCall.plain, r)]
  /\ UNCHANGED <<progVars, headCall, retry, pathCall, passCall, repoCall>>

CallDecrypt ==
  /\ cryptCall.op = "Decrypt"
  /\ LET r == AgeDecrypt(cryptCall.q, cryptCall.blob)
     IN cryptCall' = [cryptCall EXCEPT !.op = "done", !.out = r.data,
                                       !.err = r.err]
  /\ UNCHANGED <<progVars, headCall, retry, pathCall, passCall, repoCall>>

NextCrypt ==
  \/ CallEncrypt
  \/ CallDecrypt

SpecCrypt == InitCrypt /\ [][NextCrypt]_vars

\* ------------------------------------------------- push is run again
\* Client A edits and pushes, meets at most MaxFaults I/O failures, and runs
\* push again whenever it has returned.
\* The steps of a push that runs without an I/O failure
PushStep(c) ==
  \/ \E force \in BOOLEAN : StartPush(c, force, FALSE)
  \/ EnsureCacheInitialized(c)
  \/ Snapshot(c)
  \/ Plan(c)
  \/ StageAll(c)
  \/ Verify(c)
  \/ Commit(c)
  \/ UploadFile(c)
  \/ UploadHead(c)

NextAgain ==
  \/ \E f \in FileSet, v \in Contents \cup {Absent} : EditLocal("A", f, v)
  \/ \E force \in BOOLEAN : StartPush("A", force, FALSE)
  \/ EnsureCacheInitialized("A")
  \/ EnsureFails("A")
  \/ Snapshot("A")
  \/ SnapshotFails("A")
  \/ Plan("A")
  \/ PlanFails("A")
  \/ StageAll("A")
  \/ StageFails("A")
  \/ Verify("A")
  \/ VerifyFails("A")
  \/ Commit("A")
  \/ CommitFails("A")
  \/ UploadFile("A")
  \/ UploadHead("A")
  \/ UploadFails("A")

\* The process runs on to the return of Push, and the user starts the next
\* push.
SpecAgain == Init /\ [][NextAgain]_vars /\ WF_vars(PushStep("A"))

\* ------------------------------------------ two repositories, one bucket

HasSuffix(str, suffix) ==
  /\ Len(str) >= Len(suffix)
  /\ SubSeq(str, Len(str) - Len(suffix) + 1, Len(str)) = suffix
TrimPrefix(str, prefix) ==
  IF HasPrefix(str, prefix) THEN SubSeq(str, Len(prefix) + 1, Len(str))
  ELSE str

\* validOwnerPattern and validNamePattern on strings of a letter and the
\* slash
validOwnerPattern(str) ==
  Len(str) > 0 /\ \A i \in 1..Len(str) : str[i] = "a"
validNamePattern(str) ==
  Len(str) > 0 /\ \A i \in 1..Len(str) : str[i] \in {"a", Sep}

\* ParseRepoString: the RepoInfo, or the error; parts is
\* strings.SplitN(repo, "/", 2)
ParseRepoString(repo) ==
  LET parts ==
        IF \A i \in 1..Len(repo) : repo[i] # Sep THEN <<repo>>
        ELSE LET i == CHOOSE i \in 1..Len(repo) :
                        repo[i] = Sep /\ \A j \in 1..(i - 1) : repo[j] # Sep
             IN <<SubSeq(repo, 1, i - 1), SubSeq(repo, i + 1, Len(repo))>>
  IN IF Len(parts) # 2 \/ parts[1] = <<>> \/ parts[2] = <<>>
     THEN [err |-> "InvalidArgs"]
     ELSE IF ~validOwnerPattern(parts[1]) \/ ~validNamePattern(parts[2])
     THEN [err |-> "InvalidArgs"]
     ELSE [err |-> "none", Owner |-> parts[1], Name |-> parts[2]]

\* The repository strings without a dot that ParseRepoString accepts
ValidRepos ==
  {repo \in Strings(MaxRepoLen) :
     /\ \A i \in 1..Len(repo) : repo[i] # "."
     /\ ParseRepoString(repo).err = "none"}

\* RepoInfo.CachePath, and the cache directory NewCache gives the repository
CachePath(info) == info.Owner \o <<Sep>> \o info.Name
BaseDir(info) == Join(Join(<<Sep, "c">>, info.Owner), info.Name)

\* The objects of a repository after a push: a blob and the HEAD object, each
\* marked with the repository it belongs to
HeadName == <<"H", "E", "A", "D">>
ObjectsOf(repo) ==
  {[key |-> CachePath(ParseRepoString(repo)) \o <<Sep>> \o name,
    of |-> repo] : name \in {<<"f">>, HeadName}}

\* Storage.List: the objects whose key begins with the prefix
List(objs, prefix) == {o \in objs : HasPrefix(o.key, prefix)}

\* Cache.SyncFromStorage of the repository: the results the call can have.
\* The files are taken in the order of the listing, which is the store's; a
\* path that SecureJoin rejects ends the call after the files before it.
SyncFromStorage(info, objs, cache) ==
  LET prefix == CachePath(info) \o <<Sep>>
      remoteFiles == {o \in List(objs, prefix) :
                        ~HasSuffix(o.key, <<Sep>> \o HeadName)}
      localPath(o) == SecureJoin(BaseDir(info), TrimPrefix(o.key, prefix))
      good == {o \in remoteFiles : localPath(o).err = "none"}
      written(os) == {[path |-> localPath(o).path, of |-> o.of] : o \in os}
  IN IF good = remoteFiles
     THEN {[cache |-> cache \cup written(good), err |-> "none"]}
     ELSE {[cache |-> cache \cup written(os), err |-> "DownloadFailed"] :
             os \in SUBSET good}

\* Cache.DeleteRemote of the repository: the objects left
DeleteRemote(info, objs) ==
  objs \ List(objs, CachePath(info) \o <<Sep>>)

\* Two repositories with distinct valid names have been pushed to one
\* bucket; the cache of the first is empty.
InitRepo ==
  /\ Boot(0)
  /\ headCall = NoHeadCall /\ retry = NoRetry /\ pathCall = NoPathCall
  /\ passCall = NoCall /\ cryptCall = NoCall
  /\ \E R1 \in ValidRepos, R2 \in ValidRepos :
       /\ R1 # R2
       /\ repoCall = [op |-> "repos", R1 |-> R1, R2 |-> R2,
                      objects |-> ObjectsOf(R1) \cup ObjectsOf(R2),
                      cache |-> {}, synced |-> FALSE, deleted |-> FALSE,
                      err |-> "none"]

\* SyncFromStorage is called on the cache of R1.
CallSyncFromStorage ==
  /\ repoCall.op = "repos"
  /\ ~repoCall.synced
  /\ \E r \in SyncFromStorage(ParseRepoString(repoCall.R1), repoCall.objects,
                              repoCall.cache) :
       repoCall' = [repoCall EXCEPT !.cache = r.cache, !.err = r.err,
                                    !.synced = TRUE]
  /\ UNCHANGED <<progVars, headCall, retry, pathCall, passCall, cryptCall>>

\* DeleteRemote is called on the cache of R1.
CallDeleteRemote ==
  /\ repoCall.op = "repos"
  /\ ~repoCall.deleted
  /\ repoCall' = [repoCall EXCEPT
                    !.objects = DeleteRemote(ParseRepoString(repoCall.R1), @),
                    !.err = "none", !.deleted = TRUE]
  /\ UNCHANGED <<progVars, headCall, retry, pathCall, passCall, cryptCall>>

NextRepo ==
  \/ CallSyncFromStorage
  \/ CallDeleteRemote

SpecRepo == InitRepo /\ [][NextRepo]_vars

\* ------------------------------------------------------------- claims
\* c's step leaves position p of Push.
Leaves(c, p) == pc[c] = p /\ pc'[c] # p

\* c's step is the return of a push that succeeded with a commit.
Succeeds(c) == pc[c] = "sync" /\ pc'[c] = "idle" /\ err'[c] = "ok"

\* Every blob of c's cache equals the remote object of the same key.
Mirrored(c) ==
  \A f \in FileSet : files[c][f] # NoFile => objects[f] = files[c][f]

\* C1: when a non-force push with a non-empty H0 re-fetches the remote HEAD
\* after staging and reads a hash H1 # H0 (another client's push completed in
\* between), the push returns RemoteChanged, creates no commit, leaves the
\* cache HEAD where it was and uploads nothing.
C1_RemoteChangedAborts ==
  [][\A c \in Clients :
       ( /\ Leaves(c, "verify")
         /\ ~opts[c].Force
         /\ initialRemoteHead[c] # NoHash
         /\ GetRemoteHead \notin {NoHash, initialRemoteHead[c]}
         /\ faults' = faults )
       => /\ pc'[c] = "idle"
          /\ err'[c] = "RemoteChanged"
          /\ head'[c] = head[c]
          /\ commits'[c] = commits[c]
          /\ nextHash' = nextHash
          /\ objects' = objects]_vars

\* C1 witness: B's push returned RemoteChanged, the remote HEAD is the commit
\* of A's successful push, and B's cache HEAD is not that commit.
C1_Witness ==
  \E a, b \in Clients :
    /\ a # b
    /\ pc[b] = "idle" /\ err[b] = "RemoteChanged"
    /\ err[a] = "ok" /\ result[a].CommitHash = head[a]
    /\ GetRemoteHead = head[a]
    /\ head[b] # head[a]

\* C2 (as claimed): of two non-force pushes that snapshot the same non-empty
\* H0 and whose re-fetch both returned H0, at most one gets to commit and
\* upload.
C2_AtMostOneCommitsOnH0 ==
  \A a, b \in Clients :
    ( /\ a # b
      /\ Rechecks(a) /\ Rechecks(b)
      /\ initialRemoteHead[a] = initialRemoteHead[b]
      /\ refetch[a] = "same" /\ refetch[b] = "same" )
    => ~(pc[a] = "sync" /\ pc[b] = "sync")

\* C3 (as claimed): a non-force push that starts when the remote HEAD is no
\* longer the one the client last read or wrote never creates a commit.
C3_StalePushNeverCommits ==
  \A c \in Clients :
    (stale[c] /\ ~opts[c].Force) => pc[c] # "sync"

\* C4 (as claimed): a non-force push whose snapshot found no remote HEAD, and
\* which finds one after staging, returns RemoteChanged (no I/O failure
\* having occurred).
C4_FirstPushRaceAborts ==
  [][\A c \in Clients :
       ( /\ Leaves(c, "verify")
         /\ ~opts[c].Force
         /\ initialRemoteHead[c] = NoHash
         /\ GetRemoteHead # NoHash
         /\ faults = 0 /\ faults' = 0 )
       => pc'[c] = "idle" /\ err'[c] = "RemoteChanged"]_vars

\* The positions of Push, in the order one call goes through them.
PushOrder ==
  {<<"idle", "ensure">>, <<"ensure", "snapshot">>, <<"snapshot", "plan">>,
   <<"plan", "stage">>, <<"stage", "verify">>, <<"verify", "commit">>,
   <<"commit", "sync">>}

\* C5: a push goes through plan (the only step that writes cache blobs),
\* stage, verify, commit and upload in this order; an object of the store
\* changes only in a step of a push that is uploading, after that push
\* created its commit; so a push that ends at a failed commit has not
\* touched the remote.
C5_PushOrdering ==
  [][/\ \A c \in Clients :
          /\ pc'[c] # pc[c] => pc'[c] = "idle" \/ <<pc[c], pc'[c]>> \in PushOrder
          /\ files'[c] # files[c] => pc[c] \in {"ensure", "plan"}
          /\ head'[c] # head[c] => pc[c] = "commit" /\ pc'[c] = "sync"
          /\ (err[c] # "CommitFailed" /\ err'[c] = "CommitFailed") =>
               /\ pc[c] = "commit"
               /\ objects' = objects
               /\ head'[c] = head[c]
     /\ objects' # objects =>
          \E c \in Clients :
            /\ pc[c] = "sync"
            /\ upIdx'[c] # upIdx[c]
            /\ result[c].CommitHash # NoHash
            /\ result[c].CommitHash = head[c]]_vars

\* C5 witness: a push wrote a blob to the cache and ended at a failed commit,
\* and the store has no object for that blob.
C5_Witness ==
  \E c \in Clients, f \in FileSet :
    /\ pc[c] = "idle" /\ err[c] = "CommitFailed"
    /\ files[c][f] # NoFile
    /\ objects[f] = NoFile

\* C6 (as claimed): a non-force push with a non-empty H0 has a commit only if
\* its re-fetch of the remote HEAD succeeded and returned H0.
C6_CommitOnlyAfterCheckPassed ==
  \A c \in Clients :
    (pc[c] = "sync" /\ Rechecks(c)) => refetch[c] = "same"

\* C7: when a push returns success and no other client uploaded during it,
\* the remote HEAD is the commit hash it returns, which is the cache HEAD, and
\* every blob of the cache working tree equals the remote object of its key.
C7_SuccessfulPushMirrorsCache ==
  [][\A c \in Clients :
       (Succeeds(c) /\ ~interfered[c])
       => /\ GetRemoteHead' = result'[c].CommitHash
          /\ result'[c].CommitHash = head'[c]
          /\ head'[c] # NoHash
          /\ Mirrored(c)']_vars

\* C7 witness: a push returned success with a commit; the remote HEAD is that
\* commit and the cache, which holds a blob, is mirrored.
C7_Witness ==
  \E c \in Clients, f \in FileSet :
    /\ pc[c] = "idle" /\ err[c] = "ok"
    /\ result[c].CommitHash # NoHash
    /\ GetRemoteHead = result[c].CommitHash
    /\ files[c][f] # NoFile
    /\ Mirrored(c)

\* C8: a push that fails while uploading keeps its commit in the cache, and
\* the next push that returns success (no other client uploading during it)
\* leaves the remote HEAD at the cache HEAD, whose history holds the commit
\* that was not pushed, and every blob of the cache equal to its remote
\* object.
C8_UnpushedCommitPublished ==
  [][\A c \in Clients :
       /\ (pc[c] = "sync" /\ err'[c] = "UploadFailed")
          => /\ head'[c] = result[c].CommitHash
             /\ head'[c] = commits'[c][1]
             /\ unpushed'[c]
       /\ (Succeeds(c) /\ hadUnpushed[c] # NoHash /\ ~interfered[c])
          => /\ GetRemoteHead' = head'[c]
             /\ \E i \in 1..Len(commits'[c]) : commits'[c][i] = hadUnpushed[c]
             /\ hadUnpushed[c] # head'[c]
             /\ Mirrored(c)']_vars

\* C8 witness: the last push of c returned success; when it started the cache
\* held a commit no upload had finished for; the remote HEAD is the cache
\* HEAD, a later commit.
C8_Witness ==
  \E c \in Clients, f \in FileSet :
    /\ pc[c] = "idle" /\ err[c] = "ok"
    /\ result[c].CommitHash = head[c]
    /\ hadUnpushed[c] # NoHash
    /\ \E i \in 1..Len(commits[c]) : commits[c][i] = hadUnpushed[c]
    /\ GetRemoteHead = head[c]
    /\ files[c][f] # NoFile
    /\ Mirrored(c)

\* C9 (as claimed): a push does not return NothingToCommit while the cache
\* holds changes that an earlier push wrote and never committed, the local
\* files being the same as then.
C9_PendingChangesArePushed ==
  \A c \in Clients :
    (pc[c] = "idle" /\ err[c] = "NothingToCommit") => pending[c] = {}

\* C10 (as claimed): when a push that classified a tracked file as Deleted
\* returns success (no other client uploading during it), the remote object
\* of that file no longer exists.
C10_DeletePropagates ==
  [][\A c \in Clients, f \in FileSet :
       (Succeeds(c) /\ plan[c][f] = "Deleted" /\ ~interfered[c])
       => /\ result'[c].FilesDeleted >= 1
          /\ objects'[f] = NoFile]_vars

Pulling(c) == pc[c] \in {"pull", "pplan", "presolve", "pwrite"}

\* C12 (as claimed): when a pull of c returned success, also one in which the
\* resolver skipped conflicting files, and nothing changed since, the first
\* pass of the next pull of c finds nothing to write and no conflict.
C12_PullIdempotent ==
  [][\A c \in Clients :
       ( /\ Leaves(c, "pplan")
         /\ last[c] \in {"pull", "pullSkip"}
         /\ faults' = faults )
       => /\ pull'[c].filesToWrite = <<>>
          /\ pull'[c].result.FilesWithConflicts = <<>>]_vars

\* C12 (amended): when a pull of c that was not a dry run returned success
\* with no conflicting file skipped, and nothing changed since, the next pull
\* of c counts every tracked file of the cache as unchanged, finds no
\* conflict, writes no local file and returns success with nothing created
\* or updated.
C12_PullIdempotentNoSkip ==
  [][\A c \in Clients :
       (Pulling(c) /\ last[c] = "pull" /\ faults' = faults)
       => /\ local' = local
          /\ Leaves(c, "pplan") =>
               /\ pull'[c].filesToWrite = <<>>
               /\ pull'[c].result.FilesWithConflicts = <<>>
               /\ pull'[c].result.FilesSkipped =
                    Cardinality({f \in FileSet : files[c][f] # NoFile})
          /\ pc'[c] = "idle" =>
               /\ err'[c] = "ok"
               /\ pull'[c].result.FilesCreated = 0
               /\ pull'[c].result.FilesUpdated = 0
               /\ pull'[c].result.FilesSkippedConflict = 0]_vars

\* C12 witness: B, whose .env differed from the remote's and who never edited
\* it, holds the remote's plaintext after a pull that updated nothing and
\* found both files unchanged: an earlier pull wrote them.
C12_Witness ==
  /\ pc["B"] = "idle" /\ err["B"] = "ok" /\ last["B"] = "pull"
  /\ edits = 0 /\ commits["B"] = <<>>
  /\ local["B"] = [f \in FileSet |-> 1]
  /\ pull["B"].result.FilesUpdated = 0 /\ pull["B"].result.FilesCreated = 0
  /\ pull["B"].result.FilesSkipped = 2

\* C13 (as claimed): when a pull of c (not a dry run, no file skipped)
\* returned success and nothing changed since, the loop of the next push of c
\* counts nothing and the push returns NothingToCommit.
C13_PushAfterPullEmpty ==
  [][\A c \in Clients :
       (Leaves(c, "plan") /\ last[c] = "pull" /\ faults' = faults)
       => pc'[c] = "idle" /\ err'[c] = "NothingToCommit"]_vars

\* C13 (amended): the same, when every tracked file that exists locally has
\* a blob in the cache; the push then writes no blob, creates no commit and
\* uploads nothing.
C13_PushAfterPullOfAllFiles ==
  [][\A c \in Clients :
       ( /\ Leaves(c, "plan") /\ last[c] = "pull" /\ faults' = faults
         /\ \A f \in FileSet : local[c][f] # Absent => files[c][f] # NoFile )
       => /\ pc'[c] = "idle" /\ err'[c] = "NothingToCommit"
          /\ files'[c] = files[c]
          /\ head' = head /\ commits' = commits /\ objects' = objects]_vars

\* C13 witness: B, who never edited a file and has no commit, holds the
\* remote's plaintexts (a pull wrote them) and its last operation, a push,
\* returned NothingToCommit.
C13_Witness ==
  /\ pc["B"] = "idle" /\ err["B"] = "NothingToCommit" /\ last["B"] = "nothing"
  /\ edits = 0 /\ commits["B"] = <<>>
  /\ local["B"] = [f \in FileSet |-> 1]

\* C14: round trip. When a push of c returned success, c then removed tracked
\* files (trip holds the plaintext each had when it was pushed) and the remote
\* did not change, a pull of c that is not a dry run returns success and every
\* removed file exists again with the plaintext that was pushed.
C14_RoundTrip ==
  [][\A c \in Clients :
       ( /\ Pulling(c) /\ pc'[c] = "idle"
         /\ trip[c] # NoTrip /\ ~pull[c].opts.DryRun /\ faults' = faults )
       => /\ err'[c] = "ok"
          /\ \A f \in FileSet :
               trip[c][f] # Absent => local'[c][f] = trip[c][f]]_vars

\* C14 witness: A pulled back a tracked file after it pushed both and removed
\* one: the pull, A's last operation, created one file and found the other
\* unchanged, the one edit of the behaviour was the removal, and both files
\* hold the plaintext A started with.
C14_Witness ==
  /\ pc["A"] = "idle" /\ err["A"] = "ok" /\ last["A"] = "pull"
  /\ pull["A"].result.FilesCreated = 1
  /\ pull["A"].result.FilesSkipped = 1
  /\ edits = 1 /\ commits["A"] # <<>>
  /\ local["A"] = [f \in FileSet |-> 1]

\* C15: the loop of a push that meets no error puts every tracked path in
\* exactly one class, decided by the local file and the cache blob as they
\* were before the loop: absent locally and in the cache, Deleted (the blob is
\* removed unless the push is a dry run); absent locally and from the cache,
\* skipped and not counted; present locally only, Added; present in both with
\* equal plaintext, Unchanged; present in both and different, Updated. The
\* counts of the result are the sizes of the classes, and the push returns
\* NothingToCommit exactly when Added, Updated and Deleted are empty.
C15_PushClassifies ==
  [][\A c \in Clients :
       (Leaves(c, "plan") /\ faults' = faults)
       => LET here(f) == local[c][f] # Absent
              blob(f) == files[c][f] # NoFile
              same(f) == Decrypt(files[c][f]) = local[c][f]
              Deleted == {f \in FileSet : ~here(f) /\ blob(f)}
              Skipped == {f \in FileSet : ~here(f) /\ ~blob(f)}
              Added   == {f \in FileSet : here(f) /\ ~blob(f)}
              Same    == {f \in FileSet : here(f) /\ blob(f) /\ same(f)}
              Updated == {f \in FileSet : here(f) /\ blob(f) /\ ~same(f)}
              none    == Added \cup Updated \cup Deleted = {}
          IN /\ \A f \in Deleted :
                  files'[c][f] = IF opts[c].DryRun THEN files[c][f] ELSE NoFile
             /\ \A f \in Skipped \cup Same : files'[c][f] = files[c][f]
             /\ \A f \in Added \cup Updated :
                  IF opts[c].DryRun THEN files'[c][f] = files[c][f]
                  ELSE Decrypt(files'[c][f]) = local[c][f]
             /\ none <=> (pc'[c] = "idle" /\ err'[c] = "NothingToCommit")
             /\ ~none =>
                  /\ result'[c].FilesAdded = Cardinality(Added)
                  /\ result'[c].FilesUpdated = Cardinality(Updated)
                  /\ result'[c].FilesDeleted = Cardinality(Deleted)
                  /\ opts[c].DryRun <=> (pc'[c] = "idle" /\ err'[c] = "ok")
                  /\ ~opts[c].DryRun =>
                       /\ pc'[c] = "stage"
                       /\ \A f \in FileSet :
                            /\ plan'[c][f] = "Deleted" <=> f \in Deleted
                            /\ plan'[c][f] = "Skipped" <=> f \in Skipped
                            /\ plan'[c][f] = "Added" <=> f \in Added
                            /\ plan'[c][f] = "Unchanged" <=> f \in Same
                            /\ plan'[c][f] = "Updated" <=> f \in Updated]_vars

\* C15 witness: a push of B is past its loop with one file counted Updated and
\* one counted Deleted (B's cache holds a blob of a file B does not have).
C15_Witness ==
  /\ pc["B"] = "stage"
  /\ plan["B"] = [f \in FileSet |-> IF f = EnvFiles[1] THEN "Updated" ELSE "Deleted"]
  /\ result["B"].FilesUpdated = 1 /\ result["B"].FilesDeleted = 1
  /\ files["B"][EnvFiles[2]] = NoFile

\* The tracked files of c that conflict: the local file exists and differs
\* from the plaintext of the blob in c's cache.
Conflicting(c) ==
  {f \in FileSet : /\ local[c][f] # Absent /\ files[c][f] # NoFile
                   /\ Decrypt(files[c][f]) # local[c][f]}

ReturnsAbort(c, ans) ==
  \E i \in 1..Len(EnvFiles) :
    /\ EnvFiles[i] \in Conflicting(c) /\ ans[EnvFiles[i]] = "Abort"
    /\ \A j \in 1..(i - 1) :
         EnvFiles[j] \in Conflicting(c) => ans[EnvFiles[j]] \in {"Overwrite", "Skip"}

\* C17: in a pull of c with a resolver, without force or dry run, no step up
\* to the conflict handling writes a local file, and when the resolver returns
\* Abort for a conflicting file the pull returns UserCancelled there: nothing
\* is written, whatever the resolver answered for the files before.
C17_AbortCancels ==
  [][\A c \in Clients :
       ( /\ pc[c] \in {"pull", "pplan", "presolve"}
         /\ ~pull[c].opts.Force /\ ~pull[c].opts.DryRun
         /\ pull[c].opts.ConflictResolver )
       => /\ local' = local
          /\ \A ans \in [FileSet -> Answers] :
               (PullResolveWith(c, ans) /\ ReturnsAbort(c, ans))
               => /\ pc'[c] = "idle" /\ err'[c] = "UserCancelled"
                  /\ local' = local]_vars

\* C17 witness: a pull of B with two conflicting files returned
\* UserCancelled, and both files still differ from their blobs.
C17_Witness ==
  /\ pc["B"] = "idle" /\ err["B"] = "UserCancelled"
  /\ Conflicting("B") = FileSet

\* C18: in a pull of c with a resolver, without force or dry run, that finds
\* conflicting files: when the resolver answers Overwrite or Skip for each of
\* them the pull goes on, having marked exactly the files answered Skip; the
\* second pass then returns success, every marked file keeps its local
\* content, every other conflicting file has the plaintext of its blob,
\* FilesSkippedConflict is the number of the former and FilesUpdated the
\* number of the latter, and the conflict list of the result is empty.
C18_SkipAndOverwrite ==
  [][\A c \in Clients :
       ( /\ ~pull[c].opts.Force /\ ~pull[c].opts.DryRun
         /\ pull[c].opts.ConflictResolver /\ Conflicting(c) # {}
         /\ faults' = faults )
       => /\ \A ans \in [FileSet -> Answers] :
               ( /\ PullResolveWith(c, ans)
                 /\ \A f \in Conflicting(c) : ans[f] \in {"Overwrite", "Skip"} )
               => /\ pc'[c] = "pwrite"
                  /\ pull'[c].resolvedSkips =
                       {f \in Conflicting(c) : ans[f] = "Skip"}
          /\ Leaves(c, "pwrite")
             => LET skipped == Conflicting(c) \cap pull[c].resolvedSkips
                    written == Conflicting(c) \ pull[c].resolvedSkips
                IN /\ pc'[c] = "idle" /\ err'[c] = "ok"
                   /\ \A f \in skipped : local'[c][f] = local[c][f]
                   /\ \A f \in written : local'[c][f] = Decrypt(files[c][f])
                   /\ pull'[c].result.FilesSkippedConflict = Cardinality(skipped)
                   /\ pull'[c].result.FilesUpdated = Cardinality(written)
                   /\ pull'[c].result.FilesWithConflicts = <<>>]_vars

\* C18 witness: a pull of B with two conflicting files returned success with
\* one file skipped, which still differs from its blob, and one overwritten.
C18_Witness ==
  /\ pc["B"] = "idle" /\ err["B"] = "ok" /\ last["B"] = "pullSkip"
  /\ pull["B"].result.FilesSkippedConflict = 1
  /\ pull["B"].result.FilesUpdated = 1
  /\ pull["B"].result.FilesWithConflicts = <<>>
  /\ Cardinality(Conflicting("B")) = 1

\* The resolver that returns Abort for every file
AllAbort == [f \in FileSet |-> "Abort"]

\* The conflict handling of c's pull had the pull been started with the other
\* choice of resolver (none instead of the one that always aborts, or the
\* reverse); up to the conflict handling a pull does not look at the resolver.
Counterpart(c) ==
  HandleConflicts([pull[c] EXCEPT !.opts.ConflictResolver = ~@], AllAbort)

C20_DecryptFailureWritesNothing ==
  [][\A c \in Clients : \A k \in 1..Len(EnvFiles) :
       PullDecryptFailsAt(c, k)
       => /\ pc'[c] = "idle" /\ err'[c] = "DecryptError"
          /\ pull'[c].result = EmptyPullResult
          /\ local' = local]_vars

\* C20 witness: a pull of B returned DecryptError with two blobs in B's cache;
\* B's .env still differs from the plaintext of its blob and .env.old, which
\* B does not have, was not created.
C20_Witness ==
  /\ pc["B"] = "idle" /\ err["B"] = "DecryptError"
  /\ \A f \in FileSet : files["B"][f] # NoFile
  /\ local["B"][EnvFiles[1]] = 2 /\ Decrypt(files["B"][EnvFiles[1]]) = 1
  /\ local["B"][EnvFiles[2]] = Absent

\* The commit h was pushed: it is a commit of some client's cache and the
\* remote HEAD names it.
Pushed(h) == h # NoHash /\ GetRemoteHead = h /\ \E a \in Clients : Resolves(a, h)

\* C21: a pull of c at a pinned ref that was pushed does not fail with
\* RefNotFound, whichever client pushed it, and a pull at a pinned ref that
\* writes its files and returns success leaves, for every file of the ref's
\* tree, a local file with the plaintext of the blob committed at that ref.
C21_PinnedPull ==
  [][\A c \in Clients :
       /\ (pc[c] = "pull" /\ Pushed(pull[c].opts.Ref) /\ pc'[c] = "idle")
          => err'[c] # "RefNotFound"
       /\ ( /\ Leaves(c, "pwrite") /\ pull[c].opts.Ref # NoHash
            /\ ~pull[c].opts.DryRun /\ err'[c] = "ok" )
          => \A f \in FileSet :
               trees[pull[c].opts.Ref][f] # NoFile
               => local'[c][f] = Decrypt(trees[pull[c].opts.Ref][f])]_vars

\* C22: when a forced pull of c at a pinned ref R returned success (a revert:
\* c's cache HEAD is R), the remote HEAD is another commit, and nothing
\* changed since, the loop of the next push of c finds a change, so that the
\* push goes on to commit and upload instead of returning NothingToCommit.
C22_RevertThenPush ==
  [][\A c \in Clients :
       ( /\ Leaves(c, "plan") /\ last[c] = "revert"
         /\ GetRemoteHead # head[c] )
       => pc'[c] = "stage"]_vars

\* C23: the ref in the result of a pull of c that returns success is the
\* pinned ref when there is one, and otherwise the commit the remote HEAD
\* names at the time of the pull.
C23_PullResultRef ==
  [][\A c \in Clients :
       (Leaves(c, "pwrite") /\ err'[c] = "ok")
       => pull'[c].result.Ref =
            IF pull[c].opts.Ref # NoHash THEN pull[c].opts.Ref
            ELSE GetRemoteHead]_vars

\* What a pull with Force set counts on the cache tree and the project files lc
ForcedCounts(tree, lc) ==
  LET st == FirstPass(tree, lc, Len(EnvFiles))
  IN Counted([EmptyPullResult EXCEPT !.FilesSkipped = st.FilesSkipped],
             st.filesToWrite)

\* C24: a pull with DryRun set writes no project file at any of its steps,
\* never reaches the conflict handling (no resolver is asked, no Conflict and
\* no resolver's error is returned), and returns the FilesCreated,
\* FilesUpdated and FilesSkipped that a pull with Force counts on the same
\* cache tree and project files.
C24_DryRunPull ==
  [][\A c \in Clients :
       (Pulling(c) /\ pull[c].opts.DryRun)
       => /\ local' = local
          /\ (pc[c] = "presolve" => ~HasConflicts(pull[c]))
          /\ err'[c] \notin {"Conflict", "UserCancelled", "InvalidAction",
                             "ResolverError"}
          /\ (Leaves(c, "pwrite") /\ err'[c] = "ok")
             => LET forced == ForcedCounts(files[c], local[c])
                    res    == pull'[c].result
                IN /\ res.FilesCreated = forced.FilesCreated
                   /\ res.FilesUpdated = forced.FilesUpdated
                   /\ res.FilesSkipped = forced.FilesSkipped
                   /\ res.FilesSkippedConflict = 0]_vars

\* A dry run returned over a project file that differs from the remote one:
\* the conflict is reported, the file is counted as updated and not written.
C24_Witness ==
  \E c \in Clients :
    /\ pc[c] = "idle" /\ last[c] = "pullDry"
    /\ Len(pull[c].result.FilesWithConflicts) > 0
    /\ pull[c].result.FilesUpdated > 0
    /\ \E f \in FileSet : /\ files[c][f] # NoFile /\ local[c][f] # Absent
                          /\ local[c][f] # Decrypt(files[c][f])

\* What a push without DryRun counts on the cache tree and the project files lc
RealCounts(tree, lc) ==
  ResultOf(ProcessFiles(tree, lc, Len(EnvFiles), FALSE,
                        [f \in FileSet |-> 1]).plan)

\* C25: no step of a push with DryRun set that found its cache initialised
\* changes a blob of the cache, the staged or committed history or a remote
\* object; when its loop ends without an error it returns NothingToCommit if a
\* push without DryRun would count no added, updated or deleted file on the
\* same state, and otherwise success with the counts of that push.
C25_DryRunPush ==
  [][\A c \in Clients :
       ( /\ pc[c] \in {"ensure", "snapshot", "plan"} /\ opts[c].DryRun
         /\ (pc[c] = "ensure" => initialized[c]) )
       => /\ files' = files /\ objects' = objects
          /\ commits' = commits /\ head' = head /\ trees' = trees
          /\ nextHash' = nextHash /\ pending' = pending
          /\ unpushed' = unpushed
          /\ (Leaves(c, "plan") /\ err'[c] # "Error")
             => LET real == RealCounts(files[c], local[c])
                IN IF real.FilesAdded + real.FilesUpdated
                        + real.FilesDeleted = 0
                   THEN pc'[c] = "idle" /\ err'[c] = "NothingToCommit"
                   ELSE /\ pc'[c] = "idle" /\ err'[c] = "ok"
                        /\ result'[c] = real]_vars

\* A dry run returned counts over a changed project file and a removed one:
\* both blobs are still in the cache as they were.
C25_Witness ==
  \E c \in Clients :
    /\ pc[c] = "idle" /\ err[c] = "ok" /\ last[c] = "none"
    /\ result[c].CommitHash = NoHash
    /\ result[c].FilesUpdated + result[c].FilesDeleted > 0
    /\ \E f \in FileSet :
         /\ files[c][f] # NoFile
         /\ local[c][f] = Absent \/ local[c][f] # Decrypt(files[c][f])

\* What the claim takes for a valid content: HashLength lowercase hexadecimal
\* characters and then nothing but white space
LowercaseHashThenSpace(d) ==
  /\ Len(d) >= HashLength
  /\ \A i \in 1..HashLength : d[i] \in Digits \cup LowerAF
  /\ \A i \in (HashLength + 1)..Len(d) : d[i] \in Space

\* C27: GetRemoteHead returns a hash exactly when the content of the HEAD
\* object is 40 lowercase hexadecimal characters followed by nothing but
\* white space, and the hash returned is those 40 characters.
C27_HeadFormat ==
  headCall.called
  => /\ headCall.err = "none" <=> LowercaseHashThenSpace(headCall.data)
     /\ headCall.err = "none"
        => headCall.head = SubSeq(headCall.data, 1, HashLength)

\* The remote HEAD object exists and its content is not a hash.
HeadCorrupt == objects[HeadKey] = <<Corrupt>>

\* C26: a remote whose HEAD object exists with a content that is not a hash
\* counts as missing: a pull fails with RepoNotFound at its first step, and
\* the initialisation of a cache downloads nothing from it.
C26_CorruptHeadIsMissing ==
  [][\A c \in Clients :
       HeadCorrupt
       => /\ Leaves(c, "pull")
             => pc'[c] = "idle" /\ err'[c] = "RepoNotFound"
          /\ (Leaves(c, "ensure") /\ ~initialized[c])
             => files'[c] = files[c]]_vars

\* c's step is a SyncFromStorage that succeeds and is the last thing the step
\* does to the cache: the one of a pull without a ref, or the one that
\* initialises the cache for a push.
Syncs(c) ==
  \/ /\ Leaves(c, "pull") /\ pull[c].opts.Ref = NoHash /\ pc'[c] = "pplan"
  \/ /\ Leaves(c, "ensure") /\ ~initialized[c] /\ ExistsRemote
     /\ pc'[c] = "snapshot"

\* C28: after a SyncFromStorage that succeeds, every remote object other than
\* HEAD is the file of the same path in the cache working tree, byte for byte;
\* the cache has the commits and the HEAD it had, and no remote object changed.
C28_SyncFromStorage ==
  [][\A c \in Clients :
       Syncs(c)
       => /\ \A f \in FileSet : objects[f] # NoFile => files'[c][f] = objects[f]
          /\ head' = head /\ commits' = commits /\ trees' = trees
          /\ nextHash' = nextHash
          /\ objects' = objects]_vars

\* A sync has replaced, in a cache with a commit of its own, a blob that
\* differs from the remote object.
C28_Witness ==
  \E c \in Clients, f \in FileSet :
    /\ pc[c] = "pplan" /\ pull[c].opts.Ref = NoHash
    /\ head[c] # NoHash
    /\ objects[f] # NoFile
    /\ files[c][f] = objects[f]
    /\ trees[head[c]][f] # objects[f]

\* C29: after a Reset that returns success the cache repository exists, the
\* working tree holds exactly the remote's blobs if the remote exists and none
\* otherwise, and no commit from before remains.
C29_ResetRestores ==
  [][\A c \in Clients :
       (Leaves(c, "reset") /\ err'[c] = "ok")
       => /\ initialized'[c]
          /\ files'[c] = IF ExistsRemote THEN [f \in FileSet |-> objects[f]]
                         ELSE EmptyTree
          /\ commits'[c] = <<>> /\ head'[c] = NoHash]_vars

\* The failures the claim calls transient: a network timeout and the server
\* statuses 408, 429, 500, 502, 503 and 504
Transient(e) ==
  \/ e.kind = "net.Timeout"
  \/ e.kind = "googleapi" /\ e.code \in {408, 429, 500, 502, 503, 504}

\* C30: WithRetry calls the wrapped operation at most 4 times; a call other
\* than the first follows a transient failure of the call before; the first
\* success and the first failure that is not transient are returned at once,
\* the failure of the fourth call is returned as it is; a context that is
\* done while WithRetry waits between two calls ends it with the error of the
\* context, and a WithRetry that has returned calls nothing more.
C30_RetryWrapper ==
  [][/\ retry'.calls <= DefaultMaxRetries + 1
     /\ retry'.calls > retry.calls
        => /\ retry'.calls = retry.calls + 1
           /\ retry.calls > 0 => Transient(retry.out)
           /\ ~Transient(retry'.out)
              => retry'.phase = "done" /\ retry'.ret = retry'.out
           /\ retry'.calls = DefaultMaxRetries + 1
              => retry'.phase = "done" /\ retry'.ret = retry'.out
     /\ (retry.phase = "wait" /\ retry.ctx = "live" /\ retry'.ctx # "live")
        => /\ retry'.phase = "done" /\ retry'.ret = CtxErr(retry'.ctx)
           /\ retry'.calls = retry.calls
     /\ retry.phase = "done" => retry' = retry]_vars

\* Four calls failed with transient errors and the last error was returned.
C30_Witness ==
  /\ retry.phase = "done"
  /\ retry.calls = DefaultMaxRetries + 1
  /\ retry.attempt = DefaultMaxRetries
  /\ Transient(retry.ret)
  /\ retry.ctx = "live"

\* C31: an upload through RetryingStorage calls the wrapped upload once and
\* returns what it returned, a transient failure included; nothing is called
\* after that.
C31_UploadOnce ==
  [][retry.op = "Upload"
     => /\ retry'.calls <= 1
        /\ retry'.calls > retry.calls
           => /\ retry'.phase = "done"
              /\ retry'.ret = retry'.out]_vars

\* An upload failed with a transient error and was returned after one call.
C31_Witness ==
  /\ retry.op = "Upload"
  /\ retry.phase = "done"
  /\ retry.calls = 1
  /\ Transient(retry.ret)

\* The file is the directory or is below it.
Under(dir, file) ==
  \/ file = dir
  \/ HasPrefix(file, IF dir = <<Sep>> THEN dir ELSE dir \o <<Sep>>)

\* C32: a cache operation given a name whose blob file is outside the cache
\* directory fails with the invalid-path error and touches no file outside
\* the cache directory.
C32_CacheOpsValidate ==
  ( /\ pathCall.op \notin {"none", "SecureJoin"} /\ pathCall.called
    /\ ~Under(pathCall.base, Join(pathCall.base, pathCall.rel \o AgeExtension)) )
  => /\ pathCall.err = "InvalidArgs"
     /\ pathCall.touched = <<>> \/ Under(pathCall.base, pathCall.touched)

\* A relative path whose dots are all inside its components: no component is
\* empty or begins with a dot
DotsInside(rel) ==
  /\ rel # <<>>
  /\ \A i \in 1..Len(Split(rel)) :
       Split(rel)[i] # <<>> /\ Split(rel)[i][1] # "."

\* C33: SecureJoin returns the base or a path that begins with the base and
\* the separator, or fails with the invalid-argument error; it fails for
\* every absolute path and for every path whose cleaned form is ".." or begins
\* with "../"; it accepts every path whose dots are inside its components.
C33_SecureJoin ==
  (pathCall.op = "SecureJoin" /\ pathCall.called)
  => /\ pathCall.err \in {"none", "InvalidArgs"}
     /\ pathCall.err = "none"
        => \/ pathCall.path = pathCall.base
           \/ HasPrefix(pathCall.path, pathCall.base \o <<Sep>>)
     /\ IsAbs(pathCall.rel) => pathCall.err = "InvalidArgs"
     /\ ( \/ Clean(pathCall.rel) = DotDot
          \/ HasPrefix(Clean(pathCall.rel), DotDot \o <<Sep>>) )
        => pathCall.err = "InvalidArgs"
     /\ DotsInside(pathCall.rel) => pathCall.err = "none"

\* The outputs of encrypt
Ciphertexts == {Encrypt(content, r) : content \in Contents, r \in 1..MaxRand}

\* C34: every object under the repository prefix is an output of encrypt or,
\* at the HEAD key, the hash of a commit; every blob of a cache working tree
\* is an output of encrypt or the copy of a remote object.
C34_NoPlaintextStored ==
  /\ \A k \in FileSet :
       objects[k] # NoFile => objects[k] \in Ciphertexts
  /\ objects[HeadKey] # NoFile
     => \E c \in Clients : \E i \in 1..Len(commits[c]) :
          objects[HeadKey] = <<commits[c][i]>>
  /\ \A c \in Clients, f \in FileSet :
       files[c][f] # NoFile
       => \/ files[c][f] \in Ciphertexts
          \/ \E k \in FileSet : files[c][f] = objects[k]

\* A blob was encrypted by one client, uploaded, and copied by the other.
C34_Witness ==
  /\ objects[HeadKey] # NoFile
  /\ \E f \in FileSet :
       /\ objects[f] # NoFile
       /\ \A c \in Clients : files[c][f] = objects[f]
       /\ \E c \in Clients : local[c][f] = Absent

\* The sources that are available to a call, and those that would give a
\* passphrase
Available(c) ==
  (IF c.PassphraseEnv THEN {"env"} ELSE {})
  \cup (IF c.command # "none" THEN {"command"} ELSE {})
  \cup (IF c.terminal THEN {"prompt"} ELSE {})
Gives(c, source) ==
  CASE source = "env" -> c.envValue # ""
    [] source = "command" -> c.command = "prints"
    [] source = "prompt" -> c.typed \notin {"", "readError"}
SourceOrder == <<"env", "command", "prompt">>

\* C35: Resolve consults the environment variable, then the command, then
\* the prompt; a variable that is set and not empty wins over a configured
\* command; a source that fails is followed by the next available one; and
\* the call fails, with the passphrase error, only if every available source
\* fails.
C35_ResolveOrder ==
  passCall.op = "Resolve" /\ passCall.called
  => /\ \A i, j \in 1..Len(passCall.tried) :
          i < j => \E m, n \in 1..3 : /\ m < n
                                      /\ SourceOrder[m] = passCall.tried[i]
                                      /\ SourceOrder[n] = passCall.tried[j]
     /\ passCall.PassphraseEnv /\ passCall.envValue # ""
        => passCall.err = "none" /\ passCall.pass = passCall.envValue
     /\ \A m, n \in 1..3 :
          ( /\ m < n
            /\ {SourceOrder[m], SourceOrder[n]} \subseteq Available(passCall)
            /\ \A k \in 1..3 : m < k /\ k < n
                               => SourceOrder[k] \notin Available(passCall)
            /\ \E i \in 1..Len(passCall.tried) :
                 passCall.tried[i] = SourceOrder[m]
            /\ ~Gives(passCall, SourceOrder[m]) )
          => \E i \in 1..Len(passCall.tried) : passCall.tried[i] = SourceOrder[n]
     /\ passCall.err \in {"none", "NoPassphrase"}
     /\ passCall.err # "none"
        => \A source \in Available(passCall) : ~Gives(passCall, source)

\* C36: decrypt with the right passphrase returns a plaintext of at most
\* 2 MiB (2 * 1024 * 1024 bytes, the value of MaxEncryptedFileSize) and fails
\* with the size error for a longer one.
C36_DecryptLimit ==
  (cryptCall.op = "done" /\ cryptCall.q = cryptCall.p)
  => /\ cryptCall.plain.len = MaxEncryptedFileSize
        => cryptCall.err = "none" /\ cryptCall.out = cryptCall.plain
     /\ cryptCall.plain.len >= MaxEncryptedFileSize + 1
        => cryptCall.err = "FileSizeTooLarge"

\* C37: decrypting what was encrypted with the same passphrase gives back the
\* plaintext, for every plaintext of at most 2 MiB, the empty one included;
\* with another passphrase it fails with the decrypt error and returns
\* nothing.
C37_RoundTrip ==
  cryptCall.op = "done"
  => /\ (cryptCall.q = cryptCall.p /\ cryptCall.plain.len <= MaxEncryptedFileSize)
        => cryptCall.err = "none" /\ cryptCall.out = cryptCall.plain
     /\ cryptCall.q # cryptCall.p
        => cryptCall.err = "DecryptFailed" /\ cryptCall.out = NoPlain

\* C38: when a commit of the cache has not been uploaded, no I/O failure is
\* left to happen and the local files are not edited again, the pushes that
\* follow bring the remote HEAD to the cache HEAD.
C38_RecoveryWithoutEdits ==
  \A e \in 0..MaxEdits :
    [](( /\ pc["A"] = "idle" /\ unpushed["A"]
         /\ faults = MaxFaults /\ edits = e )
       => <>(GetRemoteHead = head["A"] \/ edits # e))

\* C39: a SyncToStorage writes the HEAD object as its last upload, when every
\* blob of its list has been uploaded; every other step of the call, a blob
\* upload or the failure of an upload, leaves the HEAD object as it was.
C39_HeadWrittenLast ==
  [][\A c \in Clients :
       pc[c] = "sync"
       => /\ objects'[HeadKey] # objects[HeadKey]
             => /\ Succeeds(c)
                /\ upIdx[c] > Len(SyncList(c))
                /\ Mirrored(c)
                /\ objects'[HeadKey] = HeadObject(c)
          /\ Succeeds(c)
             => /\ Mirrored(c)
                /\ \A f \in FileSet : objects'[f] = objects[f]
          /\ err'[c] = "UploadFailed"
             => objects'[HeadKey] = objects[HeadKey]]_vars

\* An upload failed after a blob of the call had reached the store; the HEAD
\* object is not the cache HEAD.
C39_Witness ==
  \E c \in Clients, f \in FileSet :
    /\ pc[c] = "idle" /\ err[c] = "UploadFailed" /\ unpushed[c]
    /\ files[c][f] # NoFile /\ objects[f] = files[c][f]
    /\ GetRemoteHead # head[c]
    /\ \A d \in Clients \ {c} : files[d][f] # files[c][f]

\* C40: whatever is called on repository R1, its cache holds no copy of an
\* object of R2 and every object of R2 is still in the bucket.
C40_RepositoryIsolation ==
  repoCall.op = "repos"
  => /\ \A file \in repoCall.cache : file.of = repoCall.R1
     /\ ObjectsOf(repoCall.R2) \subseteq repoCall.objects

====
